---- MODULE Spec2Model ----
(***************************************************************************)
(* A model of the uumpy array engine (nickovs/uumpy): the ndarray/view     *)
(* representation, broadcasting, indexing, reshape, the strided traversal  *)
(* engine and the axis reductions.                                         *)
(*                                                                         *)
(* Conventions.  C arrays are 0-based, TLA+ sequences 1-based: axis k of   *)
(* the source is dim_info[k+1] here.  Buffers are sequences of element     *)
(* values; element offset o of a buffer b is b[o+1].  Element values are   *)
(* small integers; a float element holds the same number (every value the  *)
(* model produces is exactly representable).                               *)
(***************************************************************************)
EXTENDS Integers, Sequences, FiniteSets, TLC

VARIABLES
    heap,   \* buffer name -> sequence of element values (the data blocks)
    a,      \* the array object the session holds (a fresh, simple array)
    v,      \* a view object derived from a (a itself until one is derived)
    nops,   \* number of view derivations and mutations done on a so far
    last    \* what the last operation was given and what it returned

vars == <<heap, a, v, nops, last>>

(***************************************************************************)
(* Bounds of the model.                                                    *)
(***************************************************************************)
MaxLen == 2        \* longest axis of an allocated array
MaxRank == 2       \* highest rank of an allocated array
MaxSubs == 2       \* longest index expression
MaxOps == 1        \* longest chain of views derived one from another
MaxCalls == 40     \* kernel invocations followed in one traversal

(***************************************************************************)
(* Program constants.                                                      *)
(***************************************************************************)
UUMPY_MAX_DIMS == 8
UUMPY_DEFAULT_TYPE == "f"
\* size_t counters are kept modulo 2^WordBits (the width is reduced from
\* the build's so that the values stay inside the checker's integers; no
\* traversal of the model runs long enough to wrap a second time).
WordBits == 16
SizeT(x) == x % (2 ^ WordBits)
\* mp_int_t is the signed integer of the same width: what a product that
\* does not fit is on a build where signed arithmetic wraps.
IntT(x) ==
    IF SizeT(x) >= 2 ^ (WordBits - 1) THEN SizeT(x) - (2 ^ WordBits) ELSE SizeT(x)

Typecodes == {UUMPY_DEFAULT_TYPE, "i"}

(***************************************************************************)
(* Arithmetic helpers.                                                     *)
(***************************************************************************)
MAX(x, y) == IF x >= y THEN x ELSE y
MIN(x, y) == IF x <= y THEN x ELSE y
Abs(x) == IF x < 0 THEN -x ELSE x

\* C integer division: the quotient truncates toward zero.
CDiv(x, y) ==
    IF (x >= 0) = (y > 0) THEN Abs(x) \div Abs(y) ELSE -(Abs(x) \div Abs(y))

RECURSIVE Product(_)
Product(s) == IF s = <<>> THEN 1 ELSE Head(s) * Product(Tail(s))

RECURSIVE SumSeq(_)
SumSeq(s) == IF s = <<>> THEN 0 ELSE Head(s) + SumSeq(Tail(s))

(***************************************************************************)
(* Array/View model (uumpy_obj_ndarray_t).                                 *)
(***************************************************************************)
uumpy_dim_info(l, s) == [length |-> l, stride |-> s]

NoArray ==
    [typecode |-> "", simple |-> FALSE, base_offset |-> 0,
     dim_info |-> <<>>, data |-> ""]

Shape(o) == [i \in 1..Len(o.dim_info) |-> o.dim_info[i].length]

\* The row-major strides ndarray_new computes, last axis first, in its
\* mp_int_t total_count.
RowMajor(dims) ==
    [i \in 1..Len(dims) |->
        uumpy_dim_info(dims[i], IntT(Product(SubSeq(dims, i + 1, Len(dims)))))]

\* ndarray_new: a simple array over the (new) data block named buf.
ndarray_new(typecode, dims, buf) ==
    [typecode |-> typecode, simple |-> TRUE, base_offset |-> 0,
     dim_info |-> RowMajor(dims), data |-> buf]

\* The number of elements ndarray_new allocates for dims.
total_count(dims) == IntT(Product(dims))

\* Some total_count *= dims[i] of ndarray_new's loop leaves the range of
\* mp_int_t: signed overflow, undefined behaviour.
total_count_overflows(dims) ==
    \E i \in 1..Len(dims) :
        Product(SubSeq(dims, i, Len(dims))) # IntT(Product(SubSeq(dims, i, Len(dims))))

Zeros(n) == [i \in 1..MAX(n, 0) |-> 0]

ndarray_new_shaped_like(typecode, other, trim_dims, buf) ==
    ndarray_new(typecode,
                SubSeq(Shape(other), 1, Len(other.dim_info) - trim_dims), buf)

ndarray_new_view(source, new_base, new_dims) ==
    [typecode |-> source.typecode, simple |-> FALSE, base_offset |-> new_base,
     dim_info |-> new_dims, data |-> source.data]

\* ndarray_new_0d: a rank-0 array, not marked simple.
ndarray_new_0d(typecode, buf) ==
    [typecode |-> typecode, simple |-> FALSE, base_offset |-> 0,
     dim_info |-> <<>>, data |-> buf]

ndarray_compare_dimensions_counted(left_in, right_in, count) ==
    \A i \in 1..count : left_in.dim_info[i].length = right_in.dim_info[i].length

ndarray_compare_dimensions(left_in, right_in) ==
    /\ Len(left_in.dim_info) = Len(right_in.dim_info)
    /\ ndarray_compare_dimensions_counted(left_in, right_in, Len(left_in.dim_info))

(***************************************************************************)
(* Broadcast resolver (ndarray_broadcast).                                 *)
(***************************************************************************)
\* A seeded fault: an expanded axis gets stride 1 instead of stride 0.
broadcast_dim_stride1(left_in, right_in, i) ==
    LET out == MAX(Len(left_in.dim_info), Len(right_in.dim_info))
        l_index == i - (out - Len(left_in.dim_info))
        r_index == i - (out - Len(right_in.dim_info))
        L == left_in.dim_info
        R == right_in.dim_info
    IN  IF l_index < 1 THEN
            [raise |-> FALSE, touched |-> TRUE,
             left |-> uumpy_dim_info(R[r_index].length, 1), right |-> R[r_index]]
        ELSE IF r_index < 1 THEN
            [raise |-> FALSE, touched |-> FALSE,
             left |-> L[l_index], right |-> uumpy_dim_info(L[l_index].length, 1)]
        ELSE IF L[l_index].length = R[r_index].length THEN
            [raise |-> FALSE, touched |-> FALSE,
             left |-> L[l_index], right |-> R[r_index]]
        ELSE IF L[l_index].length = 1 THEN
            [raise |-> FALSE, touched |-> TRUE,
             left |-> uumpy_dim_info(R[r_index].length, 1), right |-> R[r_index]]
        ELSE IF R[r_index].length = 1 THEN
            [raise |-> FALSE, touched |-> FALSE,
             left |-> L[l_index], right |-> uumpy_dim_info(L[l_index].length, 1)]
        ELSE
            [raise |-> TRUE, touched |-> FALSE,
             left |-> L[l_index], right |-> R[r_index]]

\* One iteration of the loop over the output axes: output axis i (1-based).
broadcast_dim(left_in, right_in, i) ==
    LET out == MAX(Len(left_in.dim_info), Len(right_in.dim_info))
        l_index == i - (out - Len(left_in.dim_info))
        r_index == i - (out - Len(right_in.dim_info))
        L == left_in.dim_info
        R == right_in.dim_info
    IN  IF l_index < 1 THEN
            [raise |-> FALSE, touched |-> TRUE,
             left |-> uumpy_dim_info(R[r_index].length, 0), right |-> R[r_index]]
        ELSE IF r_index < 1 THEN
            [raise |-> FALSE, touched |-> FALSE,
             left |-> L[l_index], right |-> uumpy_dim_info(L[l_index].length, 0)]
        ELSE IF L[l_index].length = R[r_index].length THEN
            [raise |-> FALSE, touched |-> FALSE,
             left |-> L[l_index], right |-> R[r_index]]
        ELSE IF L[l_index].length = 1 THEN
            [raise |-> FALSE, touched |-> TRUE,
             left |-> uumpy_dim_info(R[r_index].length, 0), right |-> R[r_index]]
        ELSE IF R[r_index].length = 1 THEN
            [raise |-> FALSE, touched |-> FALSE,
             left |-> L[l_index], right |-> uumpy_dim_info(L[l_index].length, 0)]
        ELSE
            [raise |-> TRUE, touched |-> FALSE,
             left |-> L[l_index], right |-> R[r_index]]

\* Returns whether it raised, whether the left array needed to be expanded,
\* and the two new views.
ndarray_broadcast(left_in, right_in) ==
    LET output_dim_count == MAX(Len(left_in.dim_info), Len(right_in.dim_info))
        d == [i \in 1..output_dim_count |-> broadcast_dim(left_in, right_in, i)]
    IN  IF \E i \in 1..output_dim_count : d[i].raise THEN
            [raised |-> TRUE, left_touched |-> FALSE,
             left_out |-> NoArray, right_out |-> NoArray]
        ELSE
            [raised |-> FALSE,
             left_touched |-> \/ output_dim_count # Len(left_in.dim_info)
                              \/ \E i \in 1..output_dim_count : d[i].touched,
             left_out |-> ndarray_new_view(left_in, left_in.base_offset,
                              [i \in 1..output_dim_count |-> d[i].left]),
             right_out |-> ndarray_new_view(right_in, right_in.base_offset,
                              [i \in 1..output_dim_count |-> d[i].right])]

(***************************************************************************)
(* Index expressions (the subscripts ndarray_subscr accepts).  An optional *)
(* integer is a sequence of length 0 (None) or 1.                          *)
(***************************************************************************)
IntItem(n) == [kind |-> "int", val |-> n, start |-> <<>>, stop |-> <<>>, step |-> <<>>]
SliceItem(start, stop, step) ==
    [kind |-> "slice", val |-> 0, start |-> start, stop |-> stop, step |-> step]
NewAxis == [kind |-> "none", val |-> 0, start |-> <<>>, stop |-> <<>>, step |-> <<>>]
Ellipsis == [kind |-> "ellipsis", val |-> 0, start |-> <<>>, stop |-> <<>>, step |-> <<>>]

\* mp_obj_slice_indices (MicroPython, called at the slice branch): the
\* slice's start/stop/step resolved against an axis of the given length.
\* None defaults to the whole axis in the step's direction, a negative
\* start/stop counts from the end, and both are clamped to the axis.
mp_obj_slice_indices(item, length) ==
    LET step == IF item.step = <<>> THEN 1 ELSE item.step[1]
        wrap(x) == IF x < 0 THEN x + length ELSE x
    IN  IF step > 0 THEN
            [start |-> IF item.start = <<>> THEN 0
                       ELSE MIN(length, MAX(wrap(item.start[1]), 0)),
             stop |-> IF item.stop = <<>> THEN length
                      ELSE MIN(length, MAX(wrap(item.stop[1]), 0)),
             step |-> step]
        ELSE
            [start |-> IF item.start = <<>> THEN length - 1
                       ELSE MIN(length - 1, MAX(wrap(item.start[1]), -1)),
             stop |-> IF item.stop = <<>> THEN -1
                      ELSE MIN(length - 1, MAX(wrap(item.stop[1]), -1)),
             step |-> step]

\* "Divide length by step, rounding UP", as the slice branch computes it.
slice_count(slice_info) ==
    IF slice_info.step > 0 THEN
        CDiv(slice_info.stop + (slice_info.step - 1) - slice_info.start,
             slice_info.step)
    ELSE
        CDiv(slice_info.start - (slice_info.step + 1) - slice_info.stop,
             -slice_info.step)

\* The first loop of ndarray_subscr: the positions of the ellipsis items.
EllipsisOffsets(dim_subscripts) ==
    {k \in 1..Len(dim_subscripts) : dim_subscripts[k].kind = "ellipsis"}

\* The state of the second loop before item k (1-based) is processed:
\*   slice_dim_offset   source axes consumed so far
\*   target_dim_info    the output axes filled so far (target_dim_offset of them)
\*   target_base_offset
\*   err                the message of the exception raised, "" while none is
\*   at                 for each item processed, the value of slice_dim_offset
\*                      when it was reached
subscr_item(o, dim_subscripts, k, st) ==
    LET item == dim_subscripts[k]
        dim_count == Len(o.dim_info)
        subscript_count == Len(dim_subscripts)
        target_dim_offset == Len(st.target_dim_info)
        seen == [st EXCEPT !.at = Append(@, st.slice_dim_offset)]
    IN  IF st.slice_dim_offset >= dim_count THEN
            [seen EXCEPT !.err = "too many indices for source array"]
        ELSE IF target_dim_offset >= UUMPY_MAX_DIMS THEN
            [seen EXCEPT !.err = "too many output dimensions"]
        ELSE IF item.kind = "none" THEN
            [seen EXCEPT !.target_dim_info = Append(@, uumpy_dim_info(1, 1))]
        ELSE IF item.kind = "ellipsis" THEN
            LET copy_up_to == dim_count - (subscript_count - k)
                n == MAX(copy_up_to - st.slice_dim_offset, 0)
            IN  IF target_dim_offset + n > UUMPY_MAX_DIMS THEN
                    [seen EXCEPT !.err = "too many output dimensions"]
                ELSE
                    [seen EXCEPT
                        !.target_dim_info =
                            @ \o SubSeq(o.dim_info, st.slice_dim_offset + 1,
                                        st.slice_dim_offset + n),
                        !.slice_dim_offset = @ + n]
        ELSE IF item.kind = "slice" THEN
            LET src_dim == o.dim_info[st.slice_dim_offset + 1]
                slice_info == mp_obj_slice_indices(item, src_dim.length)
            IN  [seen EXCEPT
                    !.target_base_offset = @ + src_dim.stride * slice_info.start,
                    !.target_dim_info =
                        Append(@, uumpy_dim_info(slice_count(slice_info),
                                                 src_dim.stride * slice_info.step)),
                    !.slice_dim_offset = @ + 1]
        ELSE IF item.kind = "int" THEN
            LET src_dim == o.dim_info[st.slice_dim_offset + 1]
                index == IF item.val < 0 THEN item.val + src_dim.length
                         ELSE item.val
            IN  IF index < 0 \/ index >= src_dim.length THEN
                    [seen EXCEPT !.err = "index out of range"]
                ELSE
                    [seen EXCEPT
                        !.target_base_offset = @ + index * src_dim.stride,
                        !.slice_dim_offset = @ + 1]
        ELSE
            [seen EXCEPT !.err = "unsupported index type"]

RECURSIVE subscr_loop(_, _, _, _)
subscr_loop(o, dim_subscripts, k, st) ==
    IF st.err # "" \/ k > Len(dim_subscripts) THEN st
    ELSE subscr_loop(o, dim_subscripts, k + 1,
                     subscr_item(o, dim_subscripts, k, st))

\* The index resolution of ndarray_subscr, up to the point where the value
\* is loaded or stored: the target's base offset and axes, or the error.
subscr_target(o, dim_subscripts) ==
    LET st0 == [slice_dim_offset |-> 0, target_dim_info |-> <<>>,
                target_base_offset |-> o.base_offset, err |-> "", at |-> <<>>]
    IN  IF Cardinality(EllipsisOffsets(dim_subscripts)) > 1 THEN
            [st0 EXCEPT !.err = "no more than one ellipsis allowed"]
        ELSE
            LET st == subscr_loop(o, dim_subscripts, 1, st0)
                rest == SubSeq(o.dim_info, st.slice_dim_offset + 1, Len(o.dim_info))
            IN  IF st.err # "" THEN st
                ELSE IF Len(st.target_dim_info) + Len(rest) > UUMPY_MAX_DIMS THEN
                    [st EXCEPT !.err = "too many output dimensions"]
                ELSE
                    [st EXCEPT !.target_dim_info = @ \o rest,
                               !.slice_dim_offset = Len(o.dim_info)]

(***************************************************************************)
(* Memory.  mem maps a buffer name to its elements.  An access outside a   *)
(* buffer is undefined behaviour: the traversal that makes it is cut there *)
(* and reported with status "oob" (the callers turn that into a choice     *)
(* among UndefinedOutcomes).  Offsets are compared as mathematical         *)
(* integers: a size_t offset that went below zero is far outside.          *)
(***************************************************************************)
InBuf(mem, buf, off, n) == off >= 0 /\ off + n <= Len(mem[buf])

\* mp_binary_get_val_array / mp_binary_set_val_array on one element.
GetVal(mem, o, off) == mem[o.data][off + 1]
SetVal(mem, o, off, val) == [mem EXCEPT ![o.data][off + 1] = val]

\* What a build can do once a traversal has left its buffers.
UndefinedOutcomes == {"fault", "corrupt"}

(***************************************************************************)
(* An mp_float_t is modelled as the exact fraction num/den, den > 0, in    *)
(* lowest terms: rounding is not modelled.  NaN is the one value with      *)
(* den = 0.  The elements of an array made from a list of integers are     *)
(* held as integers; the lists given to isclose hold fractions.            *)
(***************************************************************************)
RECURSIVE GCD(_, _)
GCD(x, y) == IF y = 0 THEN x ELSE GCD(y, x % y)

Frac(n, d) ==
    LET g == GCD(Abs(n), Abs(d))
        s == IF d < 0 THEN -1 ELSE 1
    IN  [num |-> (s * n) \div g, den |-> (s * d) \div g]

\* The mp_float_t an integer element converts to.
Float(x) == [num |-> x, den |-> 1]
Floats(block) == [i \in 1..Len(block) |-> Float(block[i])]

\* Sums are formed over the least common denominator.
FAdd(x, y) ==
    LET g == GCD(x.den, y.den)
    IN  Frac(x.num * (y.den \div g) + y.num * (x.den \div g), (x.den \div g) * y.den)
FSub(x, y) == FAdd(x, [num |-> -y.num, den |-> y.den])
FMul(x, y) == Frac(x.num * y.num, x.den * y.den)
FDiv(x, y) == Frac(x.num * y.den, x.den * y.num)
FNeg(x) == [num |-> -x.num, den |-> x.den]
FLess(x, y) == x.num * y.den < y.num * x.den
ABS(x) == [num |-> Abs(x.num), den |-> x.den]


NaN == [num |-> 0, den |-> 0]
isnan(x) == x.den = 0

\* x <= y, compared by integer parts and then the reciprocals of the
\* remainders, so that no product of denominators is formed.
RECURSIVE FLessEq(_, _)
FLessEq(x, y) ==
    LET qx == x.num \div x.den
        qy == y.num \div y.den
        rx == x.num % x.den
        ry == y.num % y.den
    IN  IF qx # qy THEN qx < qy
        ELSE IF rx = 0 THEN TRUE
        ELSE IF ry = 0 THEN FALSE
        ELSE FLessEq([num |-> y.den, den |-> ry], [num |-> x.den, den |-> rx])

(***************************************************************************)
(* Kernels (the apply_fn of a uumpy_universal_spec).  Each returns         *)
(*   oob  whether it touched memory outside a buffer                       *)
(*   ok   the bool the C function returns                                  *)
(*   mem  the memory afterwards                                            *)
(***************************************************************************)
\* mp_binary_op on two element values, for the operators the model uses.
mp_binary_op(b_op, value1, value2) ==
    CASE b_op = "ADD" -> value1 + value2
      [] b_op = "SUBTRACT" -> value1 - value2
      [] b_op = "MULTIPLY" -> value1 * value2

ufunc_copy_fallback(dest, dest_offset, src, src_offset, mem) ==
    IF ~InBuf(mem, src.data, src_offset, 1) \/ ~InBuf(mem, dest.data, dest_offset, 1)
    THEN [oob |-> TRUE, ok |-> FALSE, mem |-> mem]
    ELSE [oob |-> FALSE, ok |-> TRUE,
          mem |-> SetVal(mem, dest, dest_offset, GetVal(mem, src, src_offset))]

\* memcpy of c_count elements; overlapping blocks are undefined for memcpy.
ufunc_copy_same_type(dest, dest_offset, src, src_offset, c_count, mem) ==
    IF c_count <= 0 THEN [oob |-> FALSE, ok |-> TRUE, mem |-> mem]
    ELSE IF \/ ~InBuf(mem, src.data, src_offset, c_count)
            \/ ~InBuf(mem, dest.data, dest_offset, c_count)
            \/ /\ src.data = dest.data
               /\ src_offset # dest_offset
               /\ Abs(src_offset - dest_offset) < c_count
    THEN [oob |-> TRUE, ok |-> FALSE, mem |-> mem]
    ELSE [oob |-> FALSE, ok |-> TRUE,
          mem |-> [mem EXCEPT ![dest.data] =
                    [j \in 1..Len(@) |->
                        IF j - 1 >= dest_offset /\ j - 1 < dest_offset + c_count
                        THEN mem[src.data][j - dest_offset + src_offset]
                        ELSE @[j]]]]

ufunc_universal_binary_op_fallback(dest, dest_offset, src1, src1_offset, src2, src2_offset, b_op, mem) ==
    IF \/ ~InBuf(mem, src1.data, src1_offset, 1)
       \/ ~InBuf(mem, src2.data, src2_offset, 1)
       \/ ~InBuf(mem, dest.data, dest_offset, 1)
    THEN [oob |-> TRUE, ok |-> FALSE, mem |-> mem]
    ELSE [oob |-> FALSE, ok |-> TRUE,
          mem |-> SetVal(mem, dest, dest_offset,
                         mp_binary_op(b_op, GetVal(mem, src1, src1_offset),
                                      GetVal(mem, src2, src2_offset)))]

\* mp_unary_op on an element value, for the operators ndarray_unary_op
\* hands to the kernel.
mp_unary_op(u_op, value) ==
    CASE u_op = "POSITIVE" -> value
      [] u_op = "NEGATIVE" -> -value
      [] u_op = "ABS" -> Abs(value)

ufunc_universal_unary_op_fallback(dest, dest_offset, src, src_offset, u_op, mem) ==
    IF ~InBuf(mem, src.data, src_offset, 1) \/ ~InBuf(mem, dest.data, dest_offset, 1)
    THEN [oob |-> TRUE, ok |-> FALSE, mem |-> mem]
    ELSE [oob |-> FALSE, ok |-> TRUE,
          mem |-> SetVal(mem, dest, dest_offset,
                         mp_unary_op(u_op, GetVal(mem, src, src_offset)))]

(***************************************************************************)
(* Reduction kernel (ufunc_apply_reduction_unary).                         *)
(***************************************************************************)
\* The do-while odometer over the reduced axes dim_info (those of the source
\* from depth on): the source offsets handed to the accumulate function, in
\* order.  src_indices counts up; the body runs before the first test.
RECURSIVE reduction_carry(_, _, _, _)
reduction_carry(dim_info, l, src_indices, src_offset) ==
    IF l < 1 THEN [l |-> 0, src_indices |-> src_indices, src_offset |-> src_offset]
    ELSE
        LET off == src_offset + dim_info[l].stride
            idx == src_indices[l] + 1
        IN  IF idx < dim_info[l].length THEN
                [l |-> l, src_indices |-> [src_indices EXCEPT ![l] = idx],
                 src_offset |-> off]
            ELSE
                reduction_carry(dim_info, l - 1,
                                [src_indices EXCEPT ![l] = 0],
                                off - dim_info[l].length * dim_info[l].stride)

RECURSIVE reduction_walk(_, _, _, _)
reduction_walk(dim_info, src_indices, src_offset, visited) ==
    LET seen == Append(visited, src_offset)
        nxt == reduction_carry(dim_info, Len(dim_info), src_indices, src_offset)
    IN  IF nxt.l < 1 THEN seen
        ELSE reduction_walk(dim_info, nxt.src_indices, nxt.src_offset, seen)

\* The source offsets accumulated for one output position.
reduction_offsets(depth, src, src_offset) ==
    LET dim_info == SubSeq(src.dim_info, depth + 1, Len(src.dim_info))
        reduce_dim_count == Len(src.dim_info) - depth
    IN  IF reduce_dim_count = 1 THEN
            [i \in 1..MAX(dim_info[1].length, 0) |->
                src_offset + (i - 1) * dim_info[1].stride]
        ELSE
            reduction_walk(dim_info, [i \in 1..reduce_dim_count |-> 0],
                           src_offset, <<>>)

\* init_func, then iter_func on each element with is_first, for the
\* fast-path (float) operations.  The state is a one-element sequence, empty
\* while nothing has been stored in it (max and min have no init_func).
RECURSIVE reduction_accumulate(_, _, _)
reduction_accumulate(op, state, values) ==
    IF values = <<>> \/ op = "obj" THEN state
    ELSE
        LET x == Head(values)
            is_first == (state = <<>>)
            nxt == CASE op = "sum" -> state[1] + x
                     [] op = "prod" -> state[1] * x
                     [] op = "max" -> IF is_first \/ x > state[1] THEN x ELSE state[1]
                     [] op = "min" -> IF is_first \/ x < state[1] THEN x ELSE state[1]
        IN  reduction_accumulate(op, <<nxt>>, Tail(values))

reduction_init(op) ==
    CASE op = "sum" -> <<0>>      \* uumpy_reduction_init_zero_float
      [] op = "prod" -> <<1>>     \* uumpy_reduction_init_one_float
      [] OTHER -> <<>>            \* init_func == NULL

\* What one run of the kernel did, noted in block "log": the position it
\* was run for, the reduced axes it walked, whether init_func was called,
\* the calls of iter_func in order (source offset and is_first: the variable
\* first is true until the first call has been made), and the count handed
\* to finish_func (the length of the axis when one axis is reduced, else
\* the number of calls made).
reduction_note(depth, dest_offset, src, src_offset, op, offs) ==
    [dest_offset |-> dest_offset,
     src_offset |-> src_offset,
     dim_info |-> SubSeq(src.dim_info, depth + 1, Len(src.dim_info)),
     init |-> reduction_init(op) # <<>>,
     iter |-> [i \in 1..Len(offs) |-> <<offs[i], i = 1>>],
     count |-> IF Len(src.dim_info) - depth = 1
               THEN src.dim_info[depth + 1].length ELSE Len(offs)]

ufunc_apply_reduction_unary(depth, dest, dest_offset, src, src_offset, op, mem) ==
    LET offs == reduction_offsets(depth, src, src_offset)
        count == Len(offs)
        noted == [mem EXCEPT !["log"] =
                    Append(@, reduction_note(depth, dest_offset, src, src_offset,
                                             op, offs))]
    IN  IF \/ \E i \in 1..count : ~InBuf(mem, src.data, offs[i], 1)
           \/ ~InBuf(mem, dest.data, dest_offset, 1)
        THEN [oob |-> TRUE, ok |-> FALSE, mem |-> mem]
        ELSE
            LET state == reduction_accumulate(op, reduction_init(op),
                             [i \in 1..count |-> GetVal(mem, src, offs[i])])
            IN  IF state = <<>>
                THEN \* finish_func stores a state nothing was ever written to
                     [oob |-> TRUE, ok |-> FALSE, mem |-> mem]
                ELSE [oob |-> FALSE, ok |-> TRUE,
                      mem |-> SetVal(noted, dest, dest_offset, state[1])]

\* A kernel of the caller's own (any function of the type
\* uumpy_universal_unary or uumpy_universal_binary may be put in a spec): it
\* notes the offsets it is called with in block "log", and either stores the
\* number of the call at dest_offset and returns true, or, when the call is
\* the one that spec.fail names, stores nothing and returns false.  It
\* stores nothing either when an axis from depth on, which is the kernel's
\* to walk, is empty.
probe_kernel(spec, depth, dest, dest_offset, src1_offset, src2_offset, mem) ==
    LET call == Len(mem["log"]) + 1
        noted == [mem EXCEPT !["log"] =
                    Append(@, <<dest_offset, src1_offset, src2_offset>>)]
        empty == \E i \in (depth + 1)..Len(dest.dim_info) :
                    dest.dim_info[i].length <= 0
    IN  IF call = spec.fail THEN [oob |-> FALSE, ok |-> FALSE, mem |-> noted]
        ELSE IF empty THEN [oob |-> FALSE, ok |-> TRUE, mem |-> noted]
        ELSE IF ~InBuf(mem, dest.data, dest_offset, 1)
        THEN [oob |-> TRUE, ok |-> FALSE, mem |-> mem]
        ELSE [oob |-> FALSE, ok |-> TRUE,
              mem |-> SetVal(noted, dest, dest_offset, call)]

\* _uumpy_isclose_test(a, b, spec), with x and y for a and b
uumpy_isclose_test(x, y, spec) ==
    IF isnan(x) /\ ~isnan(y) THEN spec.equal_nan
    ELSE IF isnan(x) \/ isnan(y) THEN FALSE
    ELSE IF x = y THEN TRUE
    ELSE FLessEq(ABS(FSub(x, y)), FAdd(spec.atol, FMul(spec.rtol, ABS(y))))

\* The mp_float_t read from src at an offset: the blocks "t" and "t2" of the
\* lists given to isclose hold fractions, any other block integers.
float_at(mem, src, offset) ==
    IF src.data \in {"t", "t2"} THEN GetVal(mem, src, offset)
    ELSE Float(GetVal(mem, src, offset))

\* _uumpy_isclose_func_float and _uumpy_isclose_func_fallback, which differ
\* in how the two elements are read as mp_float_t.
uumpy_isclose_func(dest, dest_offset, src1, src1_offset, src2, src2_offset, context, mem) ==
    IF \/ ~InBuf(mem, src1.data, src1_offset, 1)
       \/ ~InBuf(mem, src2.data, src2_offset, 1)
       \/ ~InBuf(mem, dest.data, dest_offset, 1)
    THEN [oob |-> TRUE, ok |-> FALSE, mem |-> mem]
    ELSE [oob |-> FALSE, ok |-> TRUE,
          mem |-> SetVal(mem, dest, dest_offset,
                         IF uumpy_isclose_test(float_at(mem, src1, src1_offset),
                                               float_at(mem, src2, src2_offset),
                                               context)
                         THEN 1 ELSE 0)]

\* The kernel a spec selects, applied at one position.
apply_fn(spec, depth, dest, dest_offset, src1, src1_offset, src2, src2_offset, mem) ==
    CASE spec.fn = "probe_kernel" ->
            probe_kernel(spec, depth, dest, dest_offset, src1_offset, src2_offset,
                         mem)
      [] spec.fn = "ufunc_copy_same_type" ->
            ufunc_copy_same_type(dest, dest_offset, src1, src1_offset,
                                 spec.c_count, mem)
      [] spec.fn = "ufunc_copy_fallback" ->
            ufunc_copy_fallback(dest, dest_offset, src1, src1_offset, mem)
      [] spec.fn = "ufunc_universal_binary_op_fallback" ->
            ufunc_universal_binary_op_fallback(dest, dest_offset, src1, src1_offset,
                                               src2, src2_offset, spec.op, mem)
      [] spec.fn = "ufunc_universal_unary_op_fallback" ->
            ufunc_universal_unary_op_fallback(dest, dest_offset, src1, src1_offset,
                                              spec.op, mem)
      [] spec.fn = "ufunc_apply_reduction_unary" ->
            ufunc_apply_reduction_unary(depth, dest, dest_offset, src1, src1_offset,
                                        spec.op, mem)
      [] spec.fn \in {"_uumpy_isclose_func_float", "_uumpy_isclose_func_fallback"} ->
            uumpy_isclose_func(dest, dest_offset, src1, src1_offset,
                               src2, src2_offset, spec.context, mem)

(***************************************************************************)
(* Universal traversal engine (ufunc_apply_unary / ufunc_apply_binary).    *)
(***************************************************************************)
\* The for loop that advances the odometer after a kernel call, from axis l
\* (1-based) outward.  layer_indecies counts down in size_t; it returns
\* done = TRUE when the loop ran off the outermost axis (l < 0 in the C).
RECURSIVE odometer_carry(_, _, _, _, _)
odometer_carry(dest, src1, src2, l, st) ==
    IF l < 1 THEN [st EXCEPT !.done = TRUE]
    ELSE
        LET c == SizeT(st.layer_indecies[l] - 1)
            moved == [st EXCEPT
                        !.src1_offset = @ + src1.dim_info[l].stride,
                        !.src2_offset = @ + src2.dim_info[l].stride,
                        !.dest_offset = @ + dest.dim_info[l].stride,
                        !.layer_indecies[l] = c]
        IN  IF c > 0 THEN moved
            ELSE
                LET ll == dest.dim_info[l].length
                IN  odometer_carry(dest, src1, src2, l - 1,
                        [moved EXCEPT
                            !.layer_indecies[l] = SizeT(ll),
                            !.src1_offset = @ - ll * src1.dim_info[l].stride,
                            !.src2_offset = @ - ll * src2.dim_info[l].stride,
                            !.dest_offset = @ - ll * dest.dim_info[l].stride])

\* The do-while loop: the kernel is called, then the odometer advanced, until
\* the odometer runs off the outermost axis.  status is "done", "oob" (a
\* kernel call left a buffer) or "runaway" (still going after MaxCalls calls).
RECURSIVE ufunc_loop(_, _, _, _, _, _, _, _)
ufunc_loop(spec, iterate_layers, dest, src1, src2, st, mem, calls) ==
    LET k == apply_fn(spec, iterate_layers, dest, st.dest_offset,
                      src1, st.src1_offset, src2, st.src2_offset, mem)
    IN  IF k.oob THEN
            [status |-> "oob", result |-> FALSE, mem |-> mem, calls |-> calls + 1]
        ELSE
            LET nxt == odometer_carry(dest, src1, src2, iterate_layers,
                                      [st EXCEPT !.result = @ /\ k.ok])
            IN  IF nxt.done THEN
                    [status |-> "done", result |-> nxt.result, mem |-> k.mem,
                     calls |-> calls + 1]
                ELSE IF calls + 1 >= MaxCalls THEN
                    [status |-> "runaway", result |-> FALSE, mem |-> k.mem,
                     calls |-> calls + 1]
                ELSE ufunc_loop(spec, iterate_layers, dest, src1, src2,
                                nxt, k.mem, calls + 1)

\* A seeded fault: the walk of src1 starts at offset 0, not at its
\* base_offset.
ufunc_apply_binary_src1_at_0(dest, src1, src2, spec, mem) ==
    LET iterate_layers == Len(dest.dim_info) - spec.layers
    IN  ufunc_loop(spec, iterate_layers, dest, src1, src2,
                   [layer_indecies |-> [i \in 1..iterate_layers |->
                                           SizeT(dest.dim_info[i].length)],
                    dest_offset |-> dest.base_offset,
                    src1_offset |-> 0,
                    src2_offset |-> src2.base_offset,
                    result |-> TRUE, done |-> FALSE],
                   mem, 0)

ufunc_apply_binary(dest, src1, src2, spec, mem) ==
    LET iterate_layers == Len(dest.dim_info) - spec.layers
    IN  ufunc_loop(spec, iterate_layers, dest, src1, src2,
                   [layer_indecies |-> [i \in 1..iterate_layers |->
                                           SizeT(dest.dim_info[i].length)],
                    dest_offset |-> dest.base_offset,
                    src1_offset |-> src1.base_offset,
                    src2_offset |-> src2.base_offset,
                    result |-> TRUE, done |-> FALSE],
                   mem, 0)

ufunc_apply_unary(dest, src, spec, mem) ==
    LET iterate_layers == Len(dest.dim_info) - spec.layers
    IN  ufunc_loop(spec, iterate_layers, dest, src, src,
                   [layer_indecies |-> [i \in 1..iterate_layers |->
                                           SizeT(dest.dim_info[i].length)],
                    dest_offset |-> dest.base_offset,
                    src1_offset |-> src.base_offset,
                    src2_offset |-> src.base_offset,
                    result |-> TRUE, done |-> FALSE],
                   mem, 0)

(***************************************************************************)
(* Kernel selection.                                                       *)
(***************************************************************************)
\* The while loop of ufunc_find_copy_spec: from axis i (1-based) backward,
\* while the stride equals the running chunk size in src (and in dest when
\* one is given: has_dest).  Strides are compared with a size_t, so a
\* negative stride never matches.
RECURSIVE copy_chunk(_, _, _, _, _)
copy_chunk(src, dest, has_dest, i, chunk_size) ==
    IF /\ i >= 1
       /\ src.dim_info[i].stride = chunk_size
       /\ (~has_dest \/ dest.dim_info[i].stride = chunk_size)
    THEN copy_chunk(src, dest, has_dest, i - 1,
                    SizeT(chunk_size * src.dim_info[i].length))
    ELSE [i |-> i, chunk_size |-> chunk_size]

ufunc_find_copy_spec(src, dest, has_dest) ==
    LET dest_type == IF has_dest THEN dest.typecode ELSE src.typecode
    IN  IF dest_type = src.typecode THEN
            LET r == copy_chunk(src, dest, has_dest, Len(src.dim_info), 1)
            IN  [dest_type |-> dest_type,
                 layers |-> Len(src.dim_info) - r.i,
                 fn |-> "ufunc_copy_same_type", c_count |-> r.chunk_size,
                 op |-> ""]
        ELSE
            [dest_type |-> dest_type, layers |-> 0,
             fn |-> "ufunc_copy_fallback", c_count |-> 0, op |-> ""]

type_expand(lhs_type, rhs_type) == lhs_type

ufunc_find_binary_op_spec(src1, src2, dest_type_in, b_op) ==
    [dest_type |-> IF dest_type_in = "" THEN type_expand(src1.typecode, src2.typecode)
                   ELSE dest_type_in,
     layers |-> 0, fn |-> "ufunc_universal_binary_op_fallback",
     c_count |-> 0, op |-> b_op]

\* ufunc_find_unary_op_spec, called with no result type given.
ufunc_find_unary_op_spec(src, u_op) ==
    [dest_type |-> src.typecode, layers |-> 0,
     fn |-> "ufunc_universal_unary_op_fallback", c_count |-> 0, op |-> u_op]

(***************************************************************************)
(* Operations.  Each returns a record                                      *)
(*   status  "ok", "error" (an exception was raised), "null" (MP_OBJ_NULL  *)
(*           was returned), or "oob"/"runaway" (the traversal left its     *)
(*           buffers / did not stop)                                       *)
(*   err     the exception's message                                       *)
(*   out, out2  the array objects returned (NoArray when none)             *)
(*   val     the scalar returned, as a one-element sequence (<<>>: none)   *)
(*   mem     the memory afterwards                                         *)
(***************************************************************************)
Ret(status, err, out, out2, val, mem) ==
    [status |-> status, err |-> err, out |-> out, out2 |-> out2,
     val |-> val, mem |-> mem]

Raise(err, mem) == Ret("error", err, NoArray, NoArray, <<>>, mem)

\* return MP_OBJ_NULL
ReturnNull(mem) == Ret("null", "", NoArray, NoArray, <<>>, mem)

\* A Python value handed to the module: a number (dims = <<>>) or a regular
\* nested list of numbers with the given dims, elems in row-major order.
PyValue(dims, elems) == [dims |-> dims, elems |-> elems]

\* uumpy_array_from_value for a number or a nested list: the new array,
\* whose data block buf holds the value's elements.
uumpy_array_from_value(value, typecode, buf) ==
    IF value.dims = <<>> THEN ndarray_new_0d(typecode, buf)
    ELSE ndarray_new(typecode, value.dims, buf)

\* ndarray_get_obj_or_0d
ndarray_get_obj_or_0d(o, mem) ==
    IF Len(o.dim_info) = 0
    THEN Ret("ok", "", NoArray, NoArray, <<GetVal(mem, o, o.base_offset)>>, mem)
    ELSE Ret("ok", "", o, NoArray, <<>>, mem)

\* A traversal's outcome as the operation's: result is what the operation
\* returns when the traversal ran to its end.
AfterTraversal(t, result) ==
    IF t.status = "done" THEN result
    ELSE Ret(t.status, "", NoArray, NoArray, <<>>, t.mem)

(***************************************************************************)
(* ndarray_subscr: delete (value == MP_OBJ_NULL), load (value ==           *)
(* MP_OBJ_SENTINEL) and store.                                             *)
(***************************************************************************)
ndarray_subscr_delete(o, dim_subscripts, mem) == ReturnNull(mem)

ndarray_subscr_load(o, dim_subscripts, mem) ==
    LET t == subscr_target(o, dim_subscripts)
    IN  IF t.err # "" THEN Raise(t.err, mem)
        ELSE IF Len(t.target_dim_info) = 0 THEN
            IF InBuf(mem, o.data, t.target_base_offset, 1)
            THEN Ret("ok", "", NoArray, NoArray,
                     <<GetVal(mem, o, t.target_base_offset)>>, mem)
            ELSE Ret("oob", "", NoArray, NoArray, <<>>, mem)
        ELSE Ret("ok", "", ndarray_new_view(o, t.target_base_offset, t.target_dim_info),
                 NoArray, <<>>, mem)

\* The store into a target of rank one or more: dest0 is the view made of
\* the target, src0 the array stored (mem holds its block).
subscr_store_copy(dest0, src0, mem) ==
    LET same == ndarray_compare_dimensions(src0, dest0)
        b == ndarray_broadcast(dest0, src0)
    IN  IF ~same /\ b.raised THEN
            Raise("operands could not be broadcast together", mem)
        ELSE IF ~same /\ b.left_touched THEN
            Raise("value can not be broadcast into slice", mem)
        ELSE
            LET dest == IF same THEN dest0 ELSE b.left_out
                src == IF same THEN src0 ELSE b.right_out
                copy_spec == ufunc_find_copy_spec(src, dest, TRUE)
                tr == ufunc_apply_unary(dest, src, copy_spec, mem)
            IN  AfterTraversal(tr, Ret("ok", "", NoArray, NoArray, <<>>, tr.mem))

ndarray_subscr_store(o, dim_subscripts, value, mem) ==
    LET t == subscr_target(o, dim_subscripts)
    IN  IF t.err # "" THEN Raise(t.err, mem)
        ELSE IF Len(t.target_dim_info) = 0 THEN
            \* mp_binary_set_val_array converts the value to a number
            IF value.dims # <<>> THEN Raise("can't convert to number", mem)
            ELSE IF InBuf(mem, o.data, t.target_base_offset, 1)
            THEN Ret("ok", "", NoArray, NoArray, <<>>,
                     SetVal(mem, o, t.target_base_offset, value.elems[1]))
            ELSE Ret("oob", "", NoArray, NoArray, <<>>, mem)
        ELSE
            subscr_store_copy(
                ndarray_new_view(o, t.target_base_offset, t.target_dim_info),
                uumpy_array_from_value(value, o.typecode, "t"),
                [mem EXCEPT !["t"] = value.elems])

\* The store of an ndarray (value is an array object, used as it is) into a
\* target of rank one or more.  Into a target of rank zero
\* mp_binary_set_val_array converts the value to a number, which an ndarray
\* is not.
ndarray_subscr_store_array(o, dim_subscripts, value, mem) ==
    LET t == subscr_target(o, dim_subscripts)
    IN  IF t.err # "" THEN Raise(t.err, mem)
        ELSE IF Len(t.target_dim_info) = 0 THEN
            Raise("can't convert to number", mem)
        ELSE
            subscr_store_copy(
                ndarray_new_view(o, t.target_base_offset, t.target_dim_info),
                value, mem)

(***************************************************************************)
(* ndarray_binary_op for the arithmetic operators, plain and in place,     *)
(* with a Python value as right operand.                                   *)
(***************************************************************************)
\* A seeded fault: the test of the expansion flag is dropped.
left_expand_rejected_never(left_expand, in_place) == FALSE

\* The test made on ndarray_broadcast's return value.
left_expand_rejected(left_expand, in_place) == left_expand /\ in_place

\* ndarray_binary_op from its switch on: rhs is the right operand as an
\* array, mem1 the memory that holds it.
binary_op_arrays(b_op, lhs, rhs, in_place, mem1) ==
    LET same == ndarray_compare_dimensions(lhs, rhs)
        b == ndarray_broadcast(lhs, rhs)
    IN  IF b_op = "IN" THEN ReturnNull(mem1)
        ELSE IF ~same /\ b.raised THEN
            Raise("operands could not be broadcast together", mem1)
        ELSE IF ~same /\ left_expand_rejected(b.left_touched, in_place) THEN
            Raise("non-broadcastable output operand", mem1)
        ELSE
            LET lhs_view == IF same THEN lhs ELSE b.left_out
                rhs_view == IF same THEN rhs ELSE b.right_out
                spec == ufunc_find_binary_op_spec(lhs_view, rhs_view,
                            IF in_place THEN lhs.typecode ELSE "", b_op)
                dims == Shape(lhs_view)
                result == IF in_place THEN lhs
                          ELSE ndarray_new_shaped_like(spec.dest_type, lhs_view, 0, "r")
                mem2 == IF in_place THEN mem1
                        ELSE [mem1 EXCEPT !["r"] = Zeros(total_count(dims))]
            IN  IF ~in_place /\ total_count(dims) < 0 THEN
                    Raise("memory allocation failed", mem1)
                ELSE
                    LET tr == ufunc_apply_binary(result, lhs_view, rhs_view, spec, mem2)
                    IN  IF tr.status = "done" /\ ~tr.result
                        THEN ReturnNull(tr.mem)
                        ELSE AfterTraversal(tr, ndarray_get_obj_or_0d(result, tr.mem))

\* ndarray_binary_op with a number or a list as right operand, of which an
\* array is made in block "t".
ndarray_binary_op(b_op, lhs, rhs_in, in_place, mem) ==
    binary_op_arrays(b_op, lhs, uumpy_array_from_value(rhs_in, lhs.typecode, "t"),
                     in_place, [mem EXCEPT !["t"] = rhs_in.elems])

\* ndarray_binary_op with an ndarray as right operand, which is used as it
\* is.
ndarray_binary_op_array(b_op, lhs, rhs, in_place, mem) ==
    binary_op_arrays(b_op, lhs, rhs, in_place, mem)

\* ndarray_unary_op: len, bool, +, -, abs and, as an operator the switch
\* does not list, ~ ("INVERT").
ndarray_unary_op(op, o, mem) ==
    IF op = "LEN" THEN
        IF Len(o.dim_info) = 0 THEN Raise("len() of unsized object", mem)
        ELSE Ret("ok", "", NoArray, NoArray, <<o.dim_info[1].length>>, mem)
    ELSE IF op = "BOOL" THEN Raise("ambiguous; use any() or all()", mem)
    ELSE IF op \notin {"POSITIVE", "NEGATIVE", "ABS"} THEN ReturnNull(mem)
    ELSE
        LET spec == ufunc_find_unary_op_spec(o, op)
            result == ndarray_new_shaped_like(spec.dest_type, o, 0, "r")
            n == total_count(Shape(o))
        IN  IF n < 0 THEN Raise("memory allocation failed", mem)
            ELSE
                LET tr == ufunc_apply_unary(result, o, spec,
                                            [mem EXCEPT !["r"] = Zeros(n)])
                IN  IF tr.status = "done" /\ ~tr.result
                    THEN ReturnNull(tr.mem)
                    ELSE AfterTraversal(tr, ndarray_get_obj_or_0d(result, tr.mem))

(***************************************************************************)
(* ndarray_transpose and ndarray_reshape.                                  *)
(***************************************************************************)
\* order is <<>> when no order argument is given, else the one-element
\* sequence holding the order (0-based axis numbers).
ndarray_transpose(o, order, mem) ==
    LET dim_count == Len(o.dim_info)
    IN  IF order = <<>> THEN
            Ret("ok", "",
                ndarray_new_view(o, o.base_offset,
                    [i \in 1..dim_count |-> o.dim_info[dim_count + 1 - i]]),
                NoArray, <<>>, mem)
        ELSE IF Len(order[1]) # dim_count THEN Raise("axes don't match array", mem)
        ELSE IF \E i \in 1..dim_count :
                    \/ order[1][i] < 0 \/ order[1][i] >= dim_count
                    \/ \E j \in 1..(i - 1) : order[1][j] = order[1][i]
        THEN Raise("invalid transpose dimension", mem)
        ELSE Ret("ok", "",
                 ndarray_new_view(o, o.base_offset,
                     [i \in 1..dim_count |-> o.dim_info[order[1][i] + 1]]),
                 NoArray, <<>>, mem)

\* ndarray_new_from_ndarray(value, 0): a contiguous copy in the new block buf.
ndarray_new_from_ndarray(value, buf, mem) ==
    LET copy_spec == ufunc_find_copy_spec(value, NoArray, FALSE)
        o == ndarray_new_shaped_like(copy_spec.dest_type, value, 0, buf)
        n == total_count(Shape(value))
    IN  IF n < 0 THEN [status |-> "error", o |-> NoArray, mem |-> mem]
        ELSE LET tr == ufunc_apply_unary(o, value, copy_spec,
                                         [mem EXCEPT ![buf] = Zeros(n)])
             IN  [status |-> tr.status, o |-> o, mem |-> tr.mem]

\* A seeded fault: the strides are accumulated from the first axis on.
reshape_dim_info_colmajor(new_shape) ==
    [i \in 1..Len(new_shape) |->
        uumpy_dim_info(new_shape[i], Product(SubSeq(new_shape, 1, i - 1)))]

\* The loop of ndarray_reshape that fills dim_info from the last axis back.
reshape_dim_info(new_shape) ==
    [i \in 1..Len(new_shape) |->
        uumpy_dim_info(new_shape[i],
                       Product(SubSeq(new_shape, i + 1, Len(new_shape))))]

ndarray_reshape(self_in, new_shape, mem) ==
    LET c == IF self_in.simple
             THEN [status |-> "done", o |-> self_in, mem |-> mem]
             ELSE ndarray_new_from_ndarray(self_in, "r", mem)
        o == c.o
        original_count == Product(Shape(o))
        stride == Product(new_shape)
    IN  IF c.status = "error" THEN Raise("memory allocation failed", mem)
        ELSE IF c.status # "done" THEN
            Ret(c.status, "", NoArray, NoArray, <<>>, c.mem)
        ELSE IF Len(new_shape) > UUMPY_MAX_DIMS THEN
            Raise("too many dimensions", c.mem)
        ELSE IF stride # original_count THEN
            Raise("new shape has different size", c.mem)
        ELSE Ret("ok", "", ndarray_new_view(o, 0, reshape_dim_info(new_shape)),
                 NoArray, <<>>, c.mem)

(***************************************************************************)
(* Reductions (max, min, sum, prod, any, all through                       *)
(* uumpy_reduction_helper_1).                                              *)
(***************************************************************************)
ReductionOps == {"max", "min", "sum", "prod", "any", "all"}

\* The spec lookup without an out argument.  found is the bool returned;
\* op names the iter_func/init_func pair the spec carries.
uumpy_reduction_find_unary_spec(op_code, src) ==
    LET result_typecode == IF op_code \in {"any", "all"} THEN "B"
                           ELSE src.typecode
        fastpath_float == /\ src.typecode = UUMPY_DEFAULT_TYPE
                          /\ op_code \in {"max", "min", "sum", "prod"}
    IN  IF fastpath_float THEN
            [found |-> TRUE, result_typecode |-> result_typecode, op |-> op_code]
        ELSE IF op_code \in {"max", "min"} THEN
            \* uumpy_reduction_max_obj_op / min_obj_op: empty bodies
            [found |-> TRUE, result_typecode |-> result_typecode, op |-> "obj"]
        ELSE
            \* every other case falls through to "return false"
            [found |-> FALSE, result_typecode |-> result_typecode, op |-> ""]

\* An axis argument: None, one int, or a tuple of ints.
AxisNone == [kind |-> "none", vals |-> <<>>]
AxisInt(k) == [kind |-> "int", vals |-> <<k>>]
AxisTuple(ks) == [kind |-> "tuple", vals |-> ks]

\* a_index: the axis a value names, negative values counted from the end.
axis_index(value, dim_count) ==
    IF value < 0 THEN value + dim_count ELSE value

\* The message of the first check that fails in the loop over the axis
\* values, "" when none does.
RECURSIVE axis_error(_, _, _)
axis_error(values, dim_count, i) ==
    IF i > Len(values) THEN ""
    ELSE
        LET a_index == axis_index(values[i], dim_count)
        IN  IF a_index < 0 \/ a_index >= dim_count THEN "axis index out of range"
            ELSE IF \E j \in 1..(i - 1) :
                        axis_index(values[j], dim_count) = a_index
            THEN "axis can only occur once"
            ELSE axis_error(values, dim_count, i + 1)

\* uumpy_reduction_generic without an out argument.  out2 shows the view the
\* traversal was handed: the source itself, or the permuted view built here.
uumpy_reduction_generic(src_in, axis, spec, mem) ==
    LET dim_count == Len(src_in.dim_info)
        values == axis.vals
        count == Len(values)
        reduce_layers == IF axis.kind = "none" THEN dim_count ELSE count
        a_index == [i \in 1..count |-> axis_index(values[i], dim_count)]
        only_trailing == \A i \in 1..count : a_index[i] = (dim_count - count) + (i - 1)
        kept == SelectSeq([i \in 1..dim_count |-> i - 1],
                          LAMBDA x : \A i \in 1..count : a_index[i] # x)
        \* the second copy loop indexes dim_info with the value as given
        bad_read == \E i \in 1..count : values[i] < 0 \/ values[i] >= dim_count
        src == IF axis.kind = "none" \/ only_trailing \/ bad_read THEN src_in
               ELSE ndarray_new_view(src_in, src_in.base_offset,
                        [i \in 1..Len(kept) |-> src_in.dim_info[kept[i] + 1]]
                        \o [i \in 1..count |-> src_in.dim_info[values[i] + 1]])
        dest == ndarray_new_shaped_like(spec.result_typecode, src, reduce_layers, "r")
        n == total_count(Shape(dest))
        ufn_spec == [dest_type |-> spec.result_typecode, layers |-> 0,
                     fn |-> "ufunc_apply_reduction_unary", c_count |-> 0,
                     op |-> spec.op]
    IN  IF axis.kind # "none" /\ count = 0 THEN Raise("axis tuple is empty", mem)
        ELSE IF axis.kind # "none" /\ axis_error(values, dim_count, 1) # "" THEN
            Raise(axis_error(values, dim_count, 1), mem)
        ELSE IF axis.kind # "none" /\ ~only_trailing /\ bad_read THEN
            Ret("oob", "", NoArray, NoArray, <<>>, mem)
        ELSE IF n < 0 THEN Raise("memory allocation failed", mem)
        ELSE
            LET tr == ufunc_apply_unary(dest, src, ufn_spec,
                                        [mem EXCEPT !["r"] = Zeros(n)])
            IN  AfterTraversal(tr,
                    IF Len(dest.dim_info) = 0
                    THEN Ret("ok", "", NoArray, src,
                             <<GetVal(tr.mem, dest, dest.base_offset)>>, tr.mem)
                    ELSE Ret("ok", "", dest, src, <<>>, tr.mem))

\* uumpy_reduction_helper_1 with the arguments a and axis.
uumpy_reduction_helper_1(op_code, arr, axis, mem) ==
    LET spec == uumpy_reduction_find_unary_spec(op_code, arr)
    IN  IF ~spec.found THEN Raise("no reduction function for data type", mem)
        ELSE uumpy_reduction_generic(arr, axis, spec, mem)

(***************************************************************************)
(* dot (ndarray_dot, ndarray_dot_impl and its helpers), for operands of    *)
(* rank 1 and more; a rank-0 operand makes it ndarray_binary_op's          *)
(* multiplication.  The state st of the walk holds                         *)
(*   status  "done", "error" (the kernel raised err), "oob" (an element    *)
(*           outside a buffer was touched) or "undefined" (an axis record  *)
(*           past the end of dim_info was read)                            *)
(*   mem     the memory                                                    *)
(***************************************************************************)
\* A seeded fault: the offset into src2 is not advanced.
ufunc_mul_acc_fallback_src2_fixed(dest, dest_offset, src1, src1_offset, src1_dim, src2, src2_offset, src2_dim, st) ==
    LET length == src1.dim_info[src1_dim + 1].length
        off1 == [i \in 1..length |->
                    src1_offset + (i - 1) * src1.dim_info[src1_dim + 1].stride]
    IN  IF length # src2.dim_info[src2_dim + 1].length THEN
            [st EXCEPT !.status = "error", !.err = "dimension mis-match"]
        ELSE IF \/ length < 0
                \/ \E i \in 1..length : ~InBuf(st.mem, src1.data, off1[i], 1)
                \/ ~InBuf(st.mem, src2.data, src2_offset, 1)
                \/ ~InBuf(st.mem, dest.data, dest_offset, 1)
        THEN [st EXCEPT !.status = "oob"]
        ELSE [st EXCEPT !.mem = SetVal(@, dest, dest_offset,
                SumSeq([i \in 1..length |->
                    mp_binary_op("MULTIPLY", GetVal(st.mem, src1, off1[i]),
                                 GetVal(st.mem, src2, src2_offset))]))]

\* ufunc_mul_acc_fallback: the sum of products along axis src1_dim of src1
\* and axis src2_dim of src2 (0-based), stored at dest_offset.
ufunc_mul_acc_fallback(dest, dest_offset, src1, src1_offset, src1_dim, src2, src2_offset, src2_dim, st) ==
    LET length == src1.dim_info[src1_dim + 1].length
        off1 == [i \in 1..length |->
                    src1_offset + (i - 1) * src1.dim_info[src1_dim + 1].stride]
        off2 == [i \in 1..length |->
                    src2_offset + (i - 1) * src2.dim_info[src2_dim + 1].stride]
    IN  IF length # src2.dim_info[src2_dim + 1].length THEN
            [st EXCEPT !.status = "error", !.err = "dimension mis-match"]
        ELSE IF \/ length < 0
                \/ \E i \in 1..length :
                    \/ ~InBuf(st.mem, src1.data, off1[i], 1)
                    \/ ~InBuf(st.mem, src2.data, off2[i], 1)
                \/ ~InBuf(st.mem, dest.data, dest_offset, 1)
        THEN [st EXCEPT !.status = "oob"]
        ELSE [st EXCEPT !.mem = SetVal(@, dest, dest_offset,
                SumSeq([i \in 1..length |->
                    mp_binary_op("MULTIPLY", GetVal(st.mem, src1, off1[i]),
                                 GetVal(st.mem, src2, off2[i]))]))]

\* ndarray_dot_helper_1d from iteration i of its for loop on.
RECURSIVE ndarray_dot_helper_1d(_, _, _, _, _, _, _, _, _, _)
ndarray_dot_helper_1d(i, lhs_depth, rhs_depth, dest, dest_offset, lhs, lhs_offset, rhs, rhs_offset, st) ==
    LET inner == lhs_depth = Len(lhs.dim_info) - 2
    IN  IF st.status # "done" THEN st
        ELSE IF ~inner /\ lhs_depth >= Len(dest.dim_info) THEN
            [st EXCEPT !.status = "undefined"]
        ELSE IF i >= (IF inner THEN lhs.dim_info[lhs_depth + 1].length
                      ELSE dest.dim_info[lhs_depth + 1].length)
        THEN st
        ELSE IF lhs_depth >= Len(lhs.dim_info) THEN
            [st EXCEPT !.status = "undefined"]
        ELSE
            LET body == IF inner
                        THEN ufunc_mul_acc_fallback(dest, dest_offset,
                                lhs, lhs_offset, lhs_depth + 1,
                                rhs, rhs_offset, rhs_depth, st)
                        ELSE ndarray_dot_helper_1d(0, lhs_depth + 1, rhs_depth,
                                dest, dest_offset, lhs, lhs_offset,
                                rhs, rhs_offset, st)
            IN  ndarray_dot_helper_1d(i + 1, lhs_depth, rhs_depth,
                    dest, dest_offset + dest.dim_info[lhs_depth + 1].stride,
                    lhs, lhs_offset + lhs.dim_info[lhs_depth + 1].stride,
                    rhs, rhs_offset, body)

\* ndarray_dot_helper_Nd from iteration i of its for loop on; depth is the
\* depth in rhs.
RECURSIVE ndarray_dot_helper_Nd(_, _, _, _, _, _, _, _, _)
ndarray_dot_helper_Nd(i, depth, dest, dest_offset, lhs, lhs_offset, rhs, rhs_offset, st) ==
    LET dest_depth == depth + Len(lhs.dim_info) - 1
        inner == depth = Len(rhs.dim_info) - 2
        axis == IF inner THEN depth + 1 ELSE depth
    IN  IF st.status # "done" \/ i >= rhs.dim_info[axis + 1].length THEN st
        ELSE
            LET body == IF inner
                        THEN ndarray_dot_helper_1d(0, 0, depth, dest, dest_offset,
                                lhs, lhs_offset, rhs, rhs_offset, st)
                        ELSE ndarray_dot_helper_Nd(0, depth + 1, dest, dest_offset,
                                lhs, lhs_offset, rhs, rhs_offset, st)
            IN  ndarray_dot_helper_Nd(i + 1, depth,
                    dest, dest_offset + dest.dim_info[dest_depth + 1].stride,
                    lhs, lhs_offset,
                    rhs, rhs_offset + rhs.dim_info[axis + 1].stride, body)

\* What dot returns after the walk st that filled result.
AfterDot(st, result) ==
    IF st.status = "done" THEN Ret("ok", "", result, NoArray, <<>>, st.mem)
    ELSE Ret(st.status, st.err, NoArray, NoArray, <<>>, st.mem)

ndarray_dot_impl(lhs, rhs, mem) ==
    LET result_typecode ==
            IF lhs.typecode = UUMPY_DEFAULT_TYPE \/ rhs.typecode = UUMPY_DEFAULT_TYPE
            THEN UUMPY_DEFAULT_TYPE ELSE "i"
        p == Len(lhs.dim_info)
        q == Len(rhs.dim_info)
        st0 == [status |-> "done", err |-> "", mem |-> mem]
    IN  IF p = 1 /\ q = 1 THEN
            LET result == ndarray_new_0d(result_typecode, "r")
            IN  AfterDot(ufunc_mul_acc_fallback(result, 0, lhs, lhs.base_offset, 0,
                            rhs, rhs.base_offset, 0,
                            [st0 EXCEPT !.mem["r"] = <<0>>]),
                         result)
        ELSE IF q = 1 THEN
            IF lhs.dim_info[p].length # rhs.dim_info[1].length THEN
                Raise("incompatible dimensions", mem)
            ELSE
                LET result == ndarray_new_shaped_like(result_typecode, lhs, 1, "r")
                    n == total_count(Shape(result))
                IN  IF n < 0 THEN Raise("memory allocation failed", mem)
                    ELSE AfterDot(ndarray_dot_helper_1d(0, 0, 0,
                                    result, result.base_offset,
                                    lhs, lhs.base_offset, rhs, rhs.base_offset,
                                    [st0 EXCEPT !.mem["r"] = Zeros(n)]),
                                  result)
        ELSE IF p + q - 2 > UUMPY_MAX_DIMS THEN
            Raise("result has too many dimensions", mem)
        ELSE IF lhs.dim_info[p].length # rhs.dim_info[q - 1].length THEN
            Raise("incompatible dimensions", mem)
        ELSE
            LET dims == SubSeq(Shape(lhs), 1, p - 1) \o SubSeq(Shape(rhs), 1, q - 2)
                        \o <<rhs.dim_info[q].length>>
                result == ndarray_new(result_typecode, dims, "r")
                n == total_count(dims)
            IN  IF n < 0 THEN Raise("memory allocation failed", mem)
                ELSE AfterDot(ndarray_dot_helper_Nd(0, 0,
                                result, result.base_offset,
                                lhs, lhs.base_offset, rhs, rhs.base_offset,
                                [st0 EXCEPT !.mem["r"] = Zeros(n)]),
                              result)

(***************************************************************************)
(* Linear algebra (linalg.c), on exact fractions.                          *)
(***************************************************************************)
\* The exponent frexp stores for x > 0: x = m * 2^e with 1/2 <= m < 1.
RECURSIVE FREXP(_)
FREXP(x) ==
    IF ~FLess(x, Float(1)) THEN FREXP(FDiv(x, Float(2))) + 1
    ELSE IF FLess(x, Frac(1, 2)) THEN FREXP(FMul(x, Float(2))) - 1
    ELSE 0

\* The magnitude below which an element is not taken as pivot.
UUMPY_EPSILON == Frac(1, 1000000)

\* data[i + row * width] of a row-major block (0-based i and row).
At(data, width, row, i) == data[i + row * width + 1]

\* _swap_negate_rows
swap_negate_rows(data, width, start, a_row_index, b_row_index, negate) ==
    [k \in 1..Len(data) |->
        LET row == (k - 1) \div width
            i == (k - 1) % width
        IN  IF i >= start /\ row = a_row_index
            THEN At(data, width, b_row_index, i)
            ELSE IF i >= start /\ row = b_row_index
            THEN IF negate THEN FNeg(At(data, width, a_row_index, i))
                 ELSE At(data, width, a_row_index, i)
            ELSE data[k]]

\* _subtract_to_zero
subtract_to_zero(data, width, start, a_row_index, b_row_index) ==
    LET multiple == FDiv(At(data, width, b_row_index, start),
                         At(data, width, a_row_index, start))
    IN  IF multiple = Float(0) THEN data
        ELSE [k \in 1..Len(data) |->
                LET row == (k - 1) \div width
                    i == (k - 1) % width
                IN  IF row # b_row_index \/ i < start THEN data[k]
                    ELSE IF i = start THEN Float(0)
                    ELSE FSub(data[k],
                              FMul(At(data, width, a_row_index, i), multiple))]

\* _divide_row
divide_row(data, width, start, row_index, d) ==
    [k \in 1..Len(data) |->
        IF (k - 1) \div width = row_index /\ (k - 1) % width >= start
        THEN FDiv(data[k], d) ELSE data[k]]

\* The scan of column x for a pivot, from row j down: the row chosen so far
\* (-1: none) and the absolute exponent of its element.
RECURSIVE reduce_find_pivot(_, _, _, _, _, _, _)
reduce_find_pivot(data, width, height, x, j, best_row, best_abs_exponent) ==
    IF j >= height THEN best_row
    ELSE
        LET val == At(data, width, j, x)
        IN  IF FLess(ABS(val), UUMPY_EPSILON) THEN
                reduce_find_pivot(data, width, height, x, j + 1,
                                  best_row, best_abs_exponent)
            ELSE IF val = Float(1) THEN j
            ELSE
                LET row_abs_exp == Abs(FREXP(ABS(val)))
                IN  IF row_abs_exp < best_abs_exponent
                    THEN reduce_find_pivot(data, width, height, x, j + 1,
                                           j, row_abs_exp)
                    ELSE reduce_find_pivot(data, width, height, x, j + 1,
                                           best_row, best_abs_exponent)

\* The elimination loop: rows j .. height-1 except row y.
RECURSIVE reduce_eliminate(_, _, _, _, _, _)
reduce_eliminate(data, width, height, x, y, j) ==
    IF j >= height THEN data
    ELSE reduce_eliminate(
            IF j = y THEN data ELSE subtract_to_zero(data, width, x, y, j),
            width, height, x, y, j + 1)

\* The while loop of _uumpy_linalg_reduce_array.
RECURSIVE reduce_loop(_, _, _, _, _, _, _, _)
reduce_loop(data, width, height, diag, norm, x, y, det_change) ==
    IF ~(y < height /\ x < width) THEN
        [data |-> data, x |-> x, y |-> y, det_change |-> det_change]
    ELSE
        LET best_row == reduce_find_pivot(data, width, height, x, y, -1, 32767)
        IN  IF best_row = -1 THEN
                reduce_loop(data, width, height, diag, norm, x + 1, y, det_change)
            ELSE
                LET swapped == IF best_row # y
                               THEN swap_negate_rows(data, width, x, y, best_row, TRUE)
                               ELSE data
                    cleared == reduce_eliminate(swapped, width, height, x, y,
                                                IF diag THEN 0 ELSE y + 1)
                    d == At(cleared, width, y, x)
                IN  IF norm THEN
                        reduce_loop(divide_row(cleared, width, x, y, d),
                                    width, height, diag, norm, x + 1, y + 1,
                                    FDiv(det_change, d))
                    ELSE
                        reduce_loop(cleared, width, height, diag, norm,
                                    x + 1, y + 1, det_change)

\* A seeded fault: the count of pivots (y) is returned.
uumpy_linalg_reduce_array_pivots(arr, diag, norm, mem) ==
    LET red == reduce_loop(Floats(mem[arr.data]), arr.dim_info[2].length,
                           arr.dim_info[1].length, diag, norm, 0, 0, Float(1))
    IN  [red EXCEPT !.x = red.y]

\* _uumpy_linalg_reduce_array on the block of the simple float array arr:
\* the block afterwards, the values of x (which is returned) and y when the
\* loop ended, and det_change.
uumpy_linalg_reduce_array(arr, diag, norm, mem) ==
    reduce_loop(Floats(mem[arr.data]), arr.dim_info[2].length,
                arr.dim_info[1].length, diag, norm, 0, 0, Float(1))

\* An argument of a module function: an ndarray or a nested list.
ArrayArg(o) == [kind |-> "ndarray", o |-> o, value |-> [dims |-> <<>>, elems |-> <<>>]]
ListArg(value) == [kind |-> "list", o |-> NoArray, value |-> value]

\* uumpy_array_from_value for either kind of argument: an ndarray is copied
\* by ndarray_new_from_ndarray, which keeps the source's typecode
\* (ufunc_find_copy_spec overwrites the typecode asked for).
array_from_arg(arg, typecode, buf, mem) ==
    IF arg.kind = "ndarray" THEN ndarray_new_from_ndarray(arg.o, buf, mem)
    ELSE [status |-> "done",
          o |-> uumpy_array_from_value(arg.value, typecode, buf),
          mem |-> [mem EXCEPT ![buf] = arg.value.elems]]

\* What a routine returns when making its argument array failed.
ArgFailed(c) ==
    IF c.status = "error"
    THEN Ret("error", "memory allocation failed", NoArray, NoArray, <<>>, c.mem)
    ELSE Ret(c.status, "", NoArray, NoArray, <<>>, c.mem)

\* The operands ndarray_dot works on: an argument that is no ndarray is made
\* an array, the left one in block "t" and the right one in block "t2".
DotOperands(lhs_in, rhs_in) ==
    LET typecode == IF rhs_in.kind = "ndarray" THEN rhs_in.o.typecode
                    ELSE UUMPY_DEFAULT_TYPE
        lhs == IF lhs_in.kind = "ndarray" THEN lhs_in.o
               ELSE uumpy_array_from_value(lhs_in.value, typecode, "t")
    IN  [lhs |-> lhs,
         rhs |-> IF rhs_in.kind = "ndarray" THEN rhs_in.o
                 ELSE uumpy_array_from_value(rhs_in.value, lhs.typecode, "t2")]

\* uumpy.dot(lhs_in, rhs_in)
ndarray_dot(lhs_in, rhs_in, mem) ==
    LET ops == DotOperands(lhs_in, rhs_in)
    IN  ndarray_dot_impl(ops.lhs, ops.rhs,
            [mem EXCEPT !["t"] = IF lhs_in.kind = "ndarray" THEN @
                                 ELSE lhs_in.value.elems,
                        !["t2"] = IF rhs_in.kind = "ndarray" THEN @
                                  ELSE rhs_in.value.elems])

\* A value computed once and named in what follows: F(e).
With(e, F(_)) == F(e)

\* uumpy.linalg.re.  The block of an array that is not of the float type is
\* read as mp_float_t all the same: status "undefined".
uumpy_linalg_re(arg_in, mem) ==
    With(array_from_arg(arg_in, UUMPY_DEFAULT_TYPE, "r", mem), LAMBDA c :
        IF c.status # "done" THEN ArgFailed(c)
        ELSE IF Len(c.o.dim_info) # 2 THEN
            Raise("can only apply row echalon form to 2D matricies", c.mem)
        ELSE IF c.o.typecode # UUMPY_DEFAULT_TYPE THEN
            Ret("undefined", "", NoArray, NoArray, <<>>, c.mem)
        ELSE
            With(uumpy_linalg_reduce_array(c.o, FALSE, TRUE, c.mem), LAMBDA red :
                Ret("ok", "", c.o, NoArray, <<>>,
                    [c.mem EXCEPT !["r"] = red.data])))

\* uumpy.linalg.det
uumpy_linalg_det(arg_in, mem) ==
    With(array_from_arg(arg_in, UUMPY_DEFAULT_TYPE, "r", mem), LAMBDA c :
        IF c.status # "done" THEN ArgFailed(c)
        ELSE IF Len(c.o.dim_info) # 2 THEN
            Raise("can only apply row echalon form to 2D matricies", c.mem)
        ELSE IF c.o.dim_info[1].length # c.o.dim_info[2].length THEN
            Raise("det can only be applied to square matricies", c.mem)
        ELSE IF c.o.typecode # UUMPY_DEFAULT_TYPE THEN
            Ret("undefined", "", NoArray, NoArray, <<>>, c.mem)
        ELSE
            With(uumpy_linalg_reduce_array(c.o, FALSE, TRUE, c.mem), LAMBDA red :
                Ret("ok", "", NoArray, NoArray,
                    <<FDiv(Float(1), red.det_change)>>,
                    [c.mem EXCEPT !["r"] = red.data])))

\* The loop of uumpy_linalg_inv that writes the identity into the right half
\* of the length x 2*length block.
inv_identity(data, length) ==
    [k \in 1..Len(data) |->
        LET j == (k - 1) \div (length * 2)
            i == ((k - 1) % (length * 2)) - length
        IN  IF i < 0 THEN data[k] ELSE IF i = j THEN 1 ELSE 0]

\* The view of the scratch array temp the routines copy into:
\* temp_view_dims[0].length = length leaves the axes as temp's.
linalg_temp_view(temp, length) ==
    ndarray_new_view(temp, temp.base_offset,
                     [temp.dim_info EXCEPT ![1].length = length])

\* uumpy_linalg_inv from the reduction on: the singular test and the copy of
\* the right half (the view back) into o.
inv_reduced(o, back, length, red, mem3) ==
    IF red.x # length THEN Raise("singular matrix", mem3)
    ELSE IF o.typecode # UUMPY_DEFAULT_TYPE THEN
        \* mp_binary_set_val_array of a float into an integer array
        Raise("can't convert float to int", mem3)
    ELSE
        With(ufunc_apply_unary(o, back, ufunc_find_copy_spec(back, o, TRUE), mem3),
             LAMBDA tr2 : AfterTraversal(tr2, Ret("ok", "", o, NoArray, <<>>, tr2.mem)))

\* uumpy_linalg_inv from the copy of o into the left half of temp on.
inv_copied(o, temp, temp_view, length, tr1) ==
    IF tr1.status # "done" THEN AfterTraversal(tr1, Raise("", tr1.mem))
    ELSE
        With([tr1.mem EXCEPT !["temp"] = inv_identity(@, length)], LAMBDA mem2 :
            With(uumpy_linalg_reduce_array(temp, TRUE, TRUE, mem2), LAMBDA red :
                inv_reduced(o, [temp_view EXCEPT !.base_offset = length], length,
                            red, [mem2 EXCEPT !["temp"] = red.data])))

\* uumpy_linalg_inv on the array o made of its argument.
inv_array(o, length, temp, mem) ==
    inv_copied(o, temp, linalg_temp_view(temp, length), length,
        ufunc_apply_unary(linalg_temp_view(temp, length), o,
            ufunc_find_copy_spec(o, linalg_temp_view(temp, length), TRUE),
            [mem EXCEPT !["temp"] = Zeros(length * length * 2)]))

\* uumpy.linalg.inv
uumpy_linalg_inv(arg_in, mem) ==
    With(array_from_arg(arg_in, UUMPY_DEFAULT_TYPE, "r", mem), LAMBDA c :
        IF c.status # "done" THEN ArgFailed(c)
        ELSE IF Len(c.o.dim_info) # 2 THEN
            Raise("can only invert 2D matricies", c.mem)
        ELSE IF c.o.dim_info[1].length # c.o.dim_info[2].length THEN
            Raise("inv can only be applied to square matricies", c.mem)
        ELSE
            inv_array(c.o, c.o.dim_info[1].length,
                      ndarray_new(UUMPY_DEFAULT_TYPE,
                                  <<c.o.dim_info[1].length,
                                    c.o.dim_info[1].length * 2>>, "temp"),
                      c.mem))

\* uumpy_linalg_solve from the reduction on: the singular test and the copy
\* of the last column into b.
solve_reduced(b, column, length, red, mem3) ==
    IF red.x # length THEN Raise("singular matrix", mem3)
    ELSE IF b.typecode # UUMPY_DEFAULT_TYPE THEN
        \* mp_binary_set_val_array of a float into an integer array
        Raise("can't convert float to int", mem3)
    ELSE
        With(ufunc_apply_unary(b, column, ufunc_find_copy_spec(column, b, TRUE), mem3),
             LAMBDA tr3 : AfterTraversal(tr3, Ret("ok", "", b, NoArray, <<>>, tr3.mem)))

\* uumpy_linalg_solve from the copy of b into the last column of temp on.
solve_copied(b, temp, column, length, tr2) ==
    IF tr2.status # "done" THEN AfterTraversal(tr2, Raise("", tr2.mem))
    ELSE
        With(uumpy_linalg_reduce_array(temp, TRUE, TRUE, tr2.mem), LAMBDA red :
            solve_reduced(b, column, length, red,
                          [tr2.mem EXCEPT !["temp"] = red.data]))

\* uumpy_linalg_solve from the copy of A into the left of temp on; column is
\* temp_view after temp_view->dim_count = 1; temp_view->base_offset = length.
solve_copy_b(b, temp, column, length, tr1) ==
    IF tr1.status # "done" THEN AfterTraversal(tr1, Raise("", tr1.mem))
    ELSE solve_copied(b, temp, column, length,
            ufunc_apply_unary(column, b, ufunc_find_copy_spec(b, column, TRUE),
                              tr1.mem))

\* uumpy_linalg_solve on the arrays A and b made of its arguments.
solve_arrays(A, b, length, temp, mem) ==
    solve_copy_b(b, temp,
        [linalg_temp_view(temp, length) EXCEPT
            !.dim_info = SubSeq(@, 1, 1), !.base_offset = length],
        length,
        ufunc_apply_unary(linalg_temp_view(temp, length), A,
            ufunc_find_copy_spec(A, linalg_temp_view(temp, length), TRUE),
            [mem EXCEPT !["temp"] = Zeros(length * (length + 1))]))

\* uumpy_linalg_solve once both argument arrays are made.
solve_checked(A, b, mem) ==
    IF Len(A.dim_info) # 2 \/ Len(b.dim_info) # 1 THEN
        Raise("can only solve single set of equations", mem)
    ELSE IF A.dim_info[1].length # A.dim_info[2].length THEN
        Raise("equationa matrix must be square", mem)
    ELSE IF A.dim_info[1].length # b.dim_info[1].length THEN
        Raise("dimensions dton't match", mem)
    ELSE
        solve_arrays(A, b, A.dim_info[1].length,
                     ndarray_new(UUMPY_DEFAULT_TYPE,
                                 <<A.dim_info[1].length,
                                   A.dim_info[1].length + 1>>, "temp"),
                     mem)

\* uumpy.linalg.solve
uumpy_linalg_solve(a_in, b_in, mem) ==
    With(array_from_arg(a_in, UUMPY_DEFAULT_TYPE, "t", mem), LAMBDA ca :
        With(array_from_arg(b_in, UUMPY_DEFAULT_TYPE, "r", ca.mem), LAMBDA cb :
            IF ca.status # "done" THEN ArgFailed(ca)
            ELSE IF cb.status # "done" THEN ArgFailed(cb)
            ELSE solve_checked(ca.o, cb.o, cb.mem)))

(***************************************************************************)
(* isclose.  An argument is an ndarray or a list (ArrayArg, ListArg); the  *)
(* keyword arguments rtol and atol are sequences of length 0 (None) or 1.  *)
(***************************************************************************)
close_spec_of(tol) ==
    [rtol |-> IF tol.rtol = <<>> THEN Frac(1, 100000) ELSE tol.rtol[1],
     atol |-> IF tol.atol = <<>> THEN Frac(1, 100000000) ELSE tol.atol[1],
     equal_nan |-> tol.equal_nan]

isclose_arrays(a0, b0, close_spec, mem) ==
    LET same == ndarray_compare_dimensions(a0, b0)
        b == ndarray_broadcast(a0, b0)
    IN  IF ~same /\ b.raised THEN
            Raise("operands could not be broadcast together", mem)
        ELSE
            LET a1 == IF same THEN a0 ELSE b.left_out
                b1 == IF same THEN b0 ELSE b.right_out
                result == ndarray_new_shaped_like("B", a1, 0, "r")
                n == total_count(Shape(a1))
                spec == [dest_type |-> "B", layers |-> 0, c_count |-> 0, op |-> "",
                         fn |-> IF /\ a1.typecode = UUMPY_DEFAULT_TYPE
                                   /\ b1.typecode = UUMPY_DEFAULT_TYPE
                                THEN "_uumpy_isclose_func_float"
                                ELSE "_uumpy_isclose_func_fallback",
                         context |-> close_spec]
            IN  IF n < 0 THEN Raise("memory allocation failed", mem)
                ELSE AfterTraversal(
                        ufunc_apply_binary(result, a1, b1, spec,
                                           [mem EXCEPT !["r"] = Zeros(n)]),
                        Ret("ok", "", result, NoArray, <<>>,
                            ufunc_apply_binary(result, a1, b1, spec,
                                [mem EXCEPT !["r"] = Zeros(n)]).mem))

uumpy_isclose(a_in, b_in, tol, mem) ==
    isclose_arrays(
        IF a_in.kind # "ndarray"
        THEN uumpy_array_from_value(a_in.value, UUMPY_DEFAULT_TYPE, "t") ELSE a_in.o,
        IF b_in.kind # "ndarray"
        THEN uumpy_array_from_value(b_in.value, UUMPY_DEFAULT_TYPE, "t2") ELSE b_in.o,
        close_spec_of(tol),
        [mem EXCEPT !["t"] = IF a_in.kind # "ndarray" THEN a_in.value.elems ELSE @,
                    !["t2"] = IF b_in.kind # "ndarray" THEN b_in.value.elems ELSE @])

(***************************************************************************)
(* Inputs.                                                                 *)
(***************************************************************************)
SeqsUpTo(S, n) == UNION {[1..k -> S] : k \in 0..n}

\* Shapes given to ndarray(shape), and shapes of the nested lists given to
\* array(list) (a nested list has no empty level).
Shapes == SeqsUpTo(0..MaxLen, MaxRank)
ListShapes == SeqsUpTo(1..MaxLen, MaxRank) \ {<<>>}

Fills == {"arange", "zeros", "ones"}
Fill(kind, n) ==
    [i \in 1..n |-> CASE kind = "arange" -> i
                      [] kind = "zeros" -> 0
                      [] kind = "ones" -> 1]

\* The values assigned or used as right operand: the number 7, or a nested
\* list holding 7, 8, ...
Values ==
    {PyValue(dims, [i \in 1..Product(dims) |-> 6 + i]) :
        dims \in SeqsUpTo(1..MaxLen, MaxRank)}

SliceItems ==
    {SliceItem(<<>>, <<>>, <<>>), SliceItem(<<1>>, <<>>, <<>>),
     SliceItem(<<>>, <<>>, <<-1>>), SliceItem(<<>>, <<>>, <<2>>),
     SliceItem(<<1>>, <<1>>, <<>>), SliceItem(<<1>>, <<0>>, <<>>)}
IndexItems == {IntItem(n) : n \in -1..1} \cup SliceItems \cup {NewAxis, Ellipsis}
IndexExprs == SeqsUpTo(IndexItems, MaxSubs)

ReshapeShapes == SeqsUpTo({-1, 1, MaxLen, MaxLen * MaxLen}, MaxRank)
TransposeOrders == {<<>>} \cup {<<p>> : p \in SeqsUpTo(0..(MaxRank - 1), MaxRank)}
Axes == {AxisNone} \cup {AxisInt(k) : k \in (-MaxRank - 1)..MaxRank}
        \cup {AxisTuple(ks) : ks \in SeqsUpTo((-MaxRank)..(MaxRank - 1), 2)}
BinaryOps == {"ADD", "MULTIPLY"}
UnaryOps == {"LEN", "BOOL", "POSITIVE", "NEGATIVE", "ABS", "INVERT"}

\* The nested lists given to the linear algebra routines: the square
\* matrices and the vectors over LinElems (matrices of more than two rows:
\* over 0 and 1), and the lists of Values.
LinElems == -1..2
MatrixElems(n) == IF n > 2 THEN 0..1 ELSE LinElems
Matrices ==
    UNION {{PyValue(<<n, n>>, e) : e \in [1..(n * n) -> MatrixElems(n)]} : n \in 1..MaxLen}
Vectors ==
    UNION {{PyValue(<<n>>, e) : e \in [1..n -> LinElems]} : n \in 1..MaxLen}

\* The lists of rows given to the row reduction: the square matrices and
\* the matrices of other shapes.
RowLists ==
    Matrices \cup
    UNION {{PyValue(<<h, w>>, e) : e \in [1..(h * w) -> MatrixElems(MAX(h, w))]} :
            <<h, w>> \in {d \in (1..MaxLen) \X (1..MaxLen) : d[1] # d[2]}}

\* The numbers and the lists of mp_float_t given to isclose, and its
\* keyword arguments.
CloseElems == {NaN, Float(0), Float(1), Frac(3, 2)}
CloseLists ==
    {PyValue(dims, e) : dims \in {<<>>, <<1>>}, e \in [1..1 -> CloseElems]}
    \cup {PyValue(<<MaxLen>>, e) : e \in [1..MaxLen -> CloseElems]}
Tolerances ==
    [rtol : {<<>>, <<Float(0)>>, <<Frac(1, 2)>>},
     atol : {<<>>, <<Float(0)>>, <<Float(1)>>},
     equal_nan : BOOLEAN]

\* The nested lists given to dot: vectors, matrices and rank-3 lists whose
\* contracted axes have length 1 or MaxLen, and the lists of rank 5 and 6
\* with one element.
DotShapes ==
    {<<MaxLen>>, <<1, MaxLen>>, <<MaxLen, 1>>, <<MaxLen, MaxLen>>,
     <<MaxLen + 1, MaxLen, 1>>, <<MaxLen + 1, 1, MaxLen>>}
DotLists == {PyValue(dims, [i \in 1..Product(dims) |-> 6 + i]) : dims \in DotShapes}
DeepLists == {PyValue([i \in 1..k |-> 1], <<7>>) : k \in {5, 6}}

(***************************************************************************)
(* State.                                                                  *)
(*   heap  the data blocks: "a" the user's array, "t" the array made from  *)
(*         the Python value of the running operation ("t2": from its       *)
(*         second value), "r" its result, "log" the notes of the kernel    *)
(*         of a traversal the program runs itself,                         *)
(*         "temp" the scratch matrix of a linear algebra routine           *)
(*   a     the array the program allocated (NoArray before)                *)
(*   v     the view the program currently holds on a (a itself at first)   *)
(*   nops  the number of views derived one from another so far             *)
(*   last  the last operation: its name, arguments, operands (x, y), the   *)
(*         memory before it (pre) and what it returned                     *)
(***************************************************************************)
NoValue == PyValue(<<>>, <<>>)

NoTol == [rtol |-> <<>>, atol |-> <<>>, equal_nan |-> FALSE]

Arg(expr, value, ints, axis, b_op, in_place) ==
    [expr |-> expr, value |-> value, value2 |-> NoValue, ints |-> ints,
     axis |-> axis, b_op |-> b_op, in_place |-> in_place, view |-> "",
     tol |-> NoTol]

\* The arguments of a linear algebra routine: the lists given (NoValue where
\* an ndarray is given).
LinalgArg(value, value2) ==
    [Arg(<<>>, value, <<>>, AxisNone, "", FALSE)
        EXCEPT !.value2 = value2]

NoArg == Arg(<<>>, NoValue, <<>>, AxisNone, "", FALSE)

\* The arguments of an operation given a second array: the list it was made
\* of (NoValue: the program's own array) and the view taken of it.
ArrayOperandArg(expr, value, view, b_op, in_place) ==
    [Arg(expr, value, <<>>, AxisNone, b_op, in_place) EXCEPT !.view = view]

EmptyHeap == [b \in {"a", "t", "t2", "r", "temp", "log"} |-> <<>>]

Init ==
    /\ heap = EmptyHeap
    /\ a = NoArray
    /\ v = NoArray
    /\ nops = 0
    /\ last = [op |-> "", status |-> "", err |-> "", arg |-> NoArg,
               x |-> NoArray, y |-> NoArray, out |-> NoArray, out2 |-> NoArray,
               val |-> <<>>, pre |-> EmptyHeap]

\* The memory an operation starts from: the blocks of the previous
\* operation's temporaries are garbage.
Mem0 ==
    [heap EXCEPT !["t"] = <<>>, !["t2"] = <<>>, !["r"] = <<>>, !["temp"] = <<>>,
                 !["log"] = <<>>]

\* The program has an array and may run one more operation.
Ready == a.data # "" /\ nops <= MaxOps

\* The effect of an operation op(arg) on operands x, y that returned r.  A
\* traversal that left its buffers or did not stop is undefined behaviour:
\* any of UndefinedOutcomes.  A view that indexing or transpose returns on the
\* array's own block is held as the new v while fewer than MaxOps views were
\* derived; any other operation is the program's last.
Step(op, arg, x, y, r) ==
    \E u \in IF r.status \in {"ok", "error", "null"} THEN {""} ELSE UndefinedOutcomes :
        LET derived == /\ op \in {"load", "transpose"}
                       /\ r.status = "ok"
                       /\ r.out.data = "a"
                       /\ r.mem = Mem0
                       /\ nops < MaxOps
        IN  /\ last' = [op |-> op,
                        status |-> IF r.status \in {"ok", "error", "null"} THEN r.status
                                   ELSE u,
                        err |-> r.err, arg |-> arg, x |-> x, y |-> y,
                        out |-> r.out, out2 |-> r.out2, val |-> r.val,
                        pre |-> heap]
            /\ heap' = r.mem
            /\ v' = IF derived THEN r.out ELSE v
            /\ nops' = IF derived THEN nops + 1 ELSE MaxOps + 1
            /\ a' = a

(***************************************************************************)
(* Actions.                                                                *)
(***************************************************************************)
\* uumpy.array(list, typecode)
Array(typecodes, fills) ==
    /\ a.data = "" /\ nops = 0
    /\ \E typecode \in typecodes, dims \in ListShapes, kind \in fills :
        LET value == PyValue(dims, Fill(kind, Product(dims)))
            o == uumpy_array_from_value(value, typecode, "a")
        IN  /\ a' = o
            /\ v' = o
            /\ heap' = [heap EXCEPT !["a"] = value.elems]
            /\ nops' = 0
            /\ last' = [last EXCEPT !.op = "array", !.status = "ok",
                                    !.arg = Arg(<<>>, value, <<>>, AxisNone, "", FALSE),
                                    !.out = o]

\* uumpy.ndarray(shape, typecode): a zero-filled block.  When total_count
\* overflows, the build either wraps it ("wrap") or does anything else.
NewArray(typecodes, shapes) ==
    /\ a.data = "" /\ nops = 0
    /\ \E typecode \in typecodes, dims \in shapes :
        \E u \in IF total_count_overflows(dims)
                 THEN UndefinedOutcomes \cup {"wrap"} ELSE {"wrap"} :
            LET made == u = "wrap" /\ total_count(dims) >= 0
                o == IF made THEN ndarray_new(typecode, dims, "a") ELSE NoArray
            IN  /\ a' = o
                /\ v' = o
                /\ heap' = [heap EXCEPT !["a"] = Zeros(total_count(dims))]
                /\ nops' = 0
                /\ last' = [last EXCEPT
                        !.op = "ndarray",
                        !.status = IF made THEN "ok"
                                   ELSE IF u = "wrap" THEN "error" ELSE u,
                        !.err = IF made \/ u # "wrap" THEN ""
                                ELSE "memory allocation failed",
                        !.arg = Arg(<<>>, NoValue, dims, AxisNone, "", FALSE),
                        !.out = o]

\* v[expr]
Subscr(exprs) ==
    /\ Ready
    /\ \E expr \in exprs :
        Step("load", Arg(expr, NoValue, <<>>, AxisNone, "", FALSE), v, NoArray,
             ndarray_subscr_load(v, expr, Mem0))

\* v[expr] = value
SubscrStore(values) ==
    /\ Ready
    /\ \E expr \in IndexExprs, value \in values :
        Step("store", Arg(expr, value, <<>>, AxisNone, "", FALSE), v, NoArray,
             ndarray_subscr_store(v, expr, value, Mem0))

\* v op value, v op= value
BinaryOp ==
    /\ Ready
    /\ \E b_op \in BinaryOps, value \in Values, in_place \in BOOLEAN :
        Step("binary", Arg(<<>>, value, <<>>, AxisNone, b_op, in_place), v, NoArray,
             ndarray_binary_op(b_op, v, value, in_place, Mem0))

\* value in v
Contains ==
    /\ Ready
    /\ \E value \in Values :
        Step("binary", Arg(<<>>, value, <<>>, AxisNone, "IN", FALSE), v, NoArray,
             ndarray_binary_op("IN", v, value, FALSE, Mem0))

\* len(v), bool(v), +v, -v, abs(v), ~v
UnaryOp ==
    /\ Ready
    /\ \E op \in UnaryOps :
        Step("unary", Arg(<<>>, NoValue, <<>>, AxisNone, op, FALSE), v, NoArray,
             ndarray_unary_op(op, v, Mem0))

\* del v[expr]
SubscrDelete(exprs) ==
    /\ Ready
    /\ \E expr \in exprs :
        Step("delete", Arg(expr, NoValue, <<>>, AxisNone, "", FALSE), v, NoArray,
             ndarray_subscr_delete(v, expr, Mem0))

\* A spec with the caller's kernel, which unrolls layers axes itself and
\* fails at call fail (0: at none).
ProbeSpec(layers, fail) ==
    [dest_type |-> UUMPY_DEFAULT_TYPE, layers |-> layers, fn |-> "probe_kernel",
     c_count |-> 0, op |-> "", fail |-> fail]

\* What the program sees of a traversal it ran into dest: the bool returned.
Traversed(tr, dest) ==
    IF tr.status = "done"
    THEN Ret("ok", "", dest, NoArray, <<tr.result>>, tr.mem)
    ELSE Ret(tr.status, "", NoArray, NoArray, <<>>, tr.mem)

\* ufunc_apply_unary(dest, v, spec) with a new array dest shaped like v
ApplyUnary ==
    /\ Ready
    /\ \E layers \in 0..MIN(1, Len(v.dim_info)), fail \in 0..2 :
        LET dest == ndarray_new_shaped_like(UUMPY_DEFAULT_TYPE, v, 0, "r")
            n == total_count(Shape(v))
        IN  /\ n >= 0
            /\ Step("apply_unary",
                    Arg(<<>>, NoValue, <<layers, fail>>, AxisNone, "", FALSE),
                    v, NoArray,
                    Traversed(ufunc_apply_unary(dest, v, ProbeSpec(layers, fail),
                                                [Mem0 EXCEPT !["r"] = Zeros(n)]),
                              dest))

\* ufunc_apply_binary(dest, v, w, spec) with a new array dest shaped like v
\* and w the number 7 broadcast to the shape of v
ApplyBinary ==
    /\ Ready
    /\ \E layers \in 0..MIN(1, Len(v.dim_info)), fail \in 0..2 :
        LET dest == ndarray_new_shaped_like(UUMPY_DEFAULT_TYPE, v, 0, "r")
            n == total_count(Shape(v))
            w == ndarray_broadcast(v, ndarray_new_0d(v.typecode, "t")).right_out
        IN  /\ n >= 0
            /\ Step("apply_binary",
                    Arg(<<>>, NoValue, <<layers, fail>>, AxisNone, "", FALSE),
                    v, w,
                    Traversed(ufunc_apply_binary(dest, v, w, ProbeSpec(layers, fail),
                                                 [Mem0 EXCEPT !["r"] = Zeros(n),
                                                              !["t"] = <<7>>]),
                              dest))

\* The broadcast step of an operation on two arrays: v against a, against
\* an array made from a value, or the other way round.
Broadcast ==
    /\ Ready
    /\ \E value \in Values \cup {NoValue}, swap \in BOOLEAN :
        LET w == IF value = NoValue THEN a
                 ELSE uumpy_array_from_value(value, v.typecode, "t")
            mem == [Mem0 EXCEPT !["t"] = value.elems]
            x == IF swap THEN w ELSE v
            y == IF swap THEN v ELSE w
            b == ndarray_broadcast(x, y)
        IN  Step("broadcast", NoArg, x, y,
                 IF b.raised
                 THEN Raise("operands could not be broadcast together", mem)
                 ELSE Ret("ok", "", b.left_out, b.right_out, <<>>, mem))

\* v.transpose(), v.transpose(order)
Transpose ==
    /\ Ready
    /\ \E order \in TransposeOrders :
        Step("transpose",
             Arg(<<>>, NoValue, IF order = <<>> THEN <<>> ELSE order[1],
                 AxisNone, "", order # <<>>),
             v, NoArray, ndarray_transpose(v, order, Mem0))

\* v.reshape(new_shape)
Reshape ==
    /\ Ready
    /\ \E new_shape \in ReshapeShapes :
        Step("reshape", Arg(<<>>, NoValue, new_shape, AxisNone, "", FALSE),
             v, NoArray, ndarray_reshape(v, new_shape, Mem0))

\* uumpy.max(v, axis), min, sum, prod, any, all
Reduction ==
    /\ Ready
    /\ \E op_code \in ReductionOps, axis \in Axes :
        Step(op_code, Arg(<<>>, NoValue, <<>>, axis, "", FALSE), v, NoArray,
             uumpy_reduction_helper_1(op_code, v, axis, Mem0))

\* An argument is the held view, once the program has an array, or a list
\* given to a program that has none.
ArgGiven(arg) == IF arg.kind = "ndarray" THEN Ready ELSE a.data = "" /\ nops = 0
ArgsOf(lists) == {ArrayArg(v)} \cup {ListArg(value) : value \in lists}

\* uumpy.isclose(a, b, rtol=..., atol=..., equal_nan=...)
IsClose ==
    /\ Ready \/ (a.data = "" /\ nops = 0)
    /\ \E a_in \in ArgsOf(CloseLists), b_in \in ArgsOf(CloseLists), tol \in Tolerances :
        /\ IF a_in.kind = "ndarray" \/ b_in.kind = "ndarray" THEN Ready
           ELSE a.data = "" /\ nops = 0
        /\ Step("isclose",
                [LinalgArg(a_in.value, b_in.value) EXCEPT !.tol = tol],
                a_in.o, b_in.o, uumpy_isclose(a_in, b_in, tol, Mem0))

\* uumpy.linalg.re(arg)
RowEchelon ==
    \E arg \in ArgsOf(Matrices \cup Values) :
        /\ ArgGiven(arg)
        /\ Step("re", LinalgArg(arg.value, NoValue), arg.o, NoArray,
                uumpy_linalg_re(arg, Mem0))

\* uumpy.linalg.det(arg)
Det ==
    \E arg \in ArgsOf(Matrices \cup Values) :
        /\ ArgGiven(arg)
        /\ Step("det", LinalgArg(arg.value, NoValue), arg.o, NoArray,
                uumpy_linalg_det(arg, Mem0))

\* uumpy.linalg.inv(arg)
Inv ==
    \E arg \in ArgsOf(Matrices \cup Values) :
        /\ ArgGiven(arg)
        /\ Step("inv", LinalgArg(arg.value, NoValue), arg.o, NoArray,
                uumpy_linalg_inv(arg, Mem0))

\* uumpy.linalg.solve(A, b): two lists, or the held view and a list, or
\* the held view twice.
Solve ==
    \E A \in ArgsOf(Matrices \cup Values), b \in ArgsOf(Vectors) :
        /\ IF A.kind = "ndarray" \/ b.kind = "ndarray" THEN Ready
           ELSE ArgGiven(A)
        /\ Step("solve", LinalgArg(A.value, b.value), A.o, b.o,
                uumpy_linalg_solve(A, b, Mem0))

\* uumpy.dot(lhs, rhs): of the held view or the array and a list or one
\* another, or of two lists of high rank.
Dot ==
    \E lhs_in \in ArgsOf(DotLists \cup DeepLists) \cup {ArrayArg(a)}, rhs_in \in ArgsOf(DotLists \cup DeepLists) \cup {ArrayArg(a)} :
        /\ IF lhs_in.kind = "list" /\ rhs_in.kind = "list"
           THEN /\ a.data = "" /\ nops = 0
                /\ lhs_in.value \in DeepLists /\ rhs_in.value \in DeepLists
           ELSE /\ Ready
                /\ lhs_in.value \notin DeepLists /\ rhs_in.value \notin DeepLists
        /\ Step("dot", LinalgArg(lhs_in.value, rhs_in.value),
                DotOperands(lhs_in, rhs_in).lhs, DotOperands(lhs_in, rhs_in).rhs,
                ndarray_dot(lhs_in, rhs_in, Mem0))

\* _uumpy_linalg_reduce_array(o, diag, norm, NULL) on the array o made of a
\* list of rows, as the routines of the module call it
ReduceArray(lists) ==
    /\ a.data = "" /\ nops = 0
    /\ \E value \in lists, diag \in BOOLEAN, norm \in BOOLEAN :
        LET o == uumpy_array_from_value(value, UUMPY_DEFAULT_TYPE, "r")
            mem == [Mem0 EXCEPT !["r"] = value.elems]
        IN  Step("reduce",
                 Arg(<<>>, value, <<IF diag THEN 1 ELSE 0, IF norm THEN 1 ELSE 0>>,
                     AxisNone, "", FALSE),
                 o, NoArray,
                 With(uumpy_linalg_reduce_array(o, diag, norm, mem), LAMBDA red :
                    Ret("ok", "", o, NoArray, <<red.x>>,
                        [mem EXCEPT !["r"] = red.data])))

\* The ways a second array is handed to an operation: as it is, transposed
\* (w.transpose()) or reversed along its first axis (w[::-1]).
ArrayViews == {"whole", "transposed", "reversed"}

\* The second array of an operation: the array w made of a list (block "t"
\* of mem), or the program's own array a when no list is given, seen through
\* view.  A rank-0 array has no reverse.
OperandArray(value, view, mem) ==
    LET w == IF value = NoValue THEN a
             ELSE uumpy_array_from_value(value, v.typecode, "t")
    IN  CASE view = "whole" -> w
          [] view = "transposed" -> ndarray_transpose(w, <<>>, mem).out
          [] view = "reversed" ->
                ndarray_subscr_load(w, <<SliceItem(<<>>, <<>>, <<-1>>)>>, mem).out

\* uumpy.array(v): the copy of a view into a new array
CopyArray ==
    /\ Ready
    /\ LET c == ndarray_new_from_ndarray(v, "r", Mem0)
       IN  Step("copy", NoArg, v, NoArray,
                IF c.status = "done" THEN Ret("ok", "", c.o, NoArray, <<>>, c.mem)
                ELSE ArgFailed(c))

\* v[expr] = w, w an array made of a list or the program's own array, or a
\* view of either
StoreArray(exprs, values, views) ==
    /\ Ready
    /\ \E expr \in exprs, value \in values, view \in views :
        LET mem == [Mem0 EXCEPT !["t"] = value.elems]
            src == OperandArray(value, view, mem)
        IN  /\ src # NoArray
            /\ Step("store_array", ArrayOperandArg(expr, value, view, "", FALSE),
                    v, src, ndarray_subscr_store_array(v, expr, src, mem))

\* v op w, v op= w, w the program's own array or a view of it
BinaryOpArray(views) ==
    /\ Ready
    /\ \E b_op \in BinaryOps, view \in views, in_place \in BOOLEAN :
        LET src == OperandArray(NoValue, view, Mem0)
        IN  /\ src # NoArray
            /\ Step("binary_array", ArrayOperandArg(<<>>, NoValue, view, b_op, in_place),
                    v, src, ndarray_binary_op_array(b_op, v, src, in_place, Mem0))

Next ==
    \/ Array(Typecodes, Fills)
    \/ NewArray(Typecodes, Shapes)
    \/ Subscr(IndexExprs)
    \/ SubscrStore(Values)
    \/ BinaryOp
    \/ Broadcast
    \/ Transpose
    \/ Reshape
    \/ Reduction
    \/ RowEchelon
    \/ Det
    \/ Inv
    \/ Solve
    \/ Dot
    \/ Contains
    \/ UnaryOp
    \/ SubscrDelete(IndexExprs)
    \/ ApplyUnary
    \/ ApplyBinary
    \/ CopyArray
    \/ StoreArray(IndexExprs, Values \cup {NoValue}, ArrayViews)
    \/ ReduceArray(RowLists)
    \/ IsClose
    \/ BinaryOpArray(ArrayViews)

Spec == Init /\ [][Next]_vars

(***************************************************************************)
(* Specifications of the parts of the library, each over the inputs that   *)
(* matter to it.                                                           *)
(***************************************************************************)
\* Indexing and slice assignment.
StoreValues ==
    {PyValue(dims, [i \in 1..Product(dims) |-> 6 + i]) :
        dims \in {<<>>, <<MaxLen>>, <<1, MaxLen>>}}

NextIndex ==
    \/ Array({UUMPY_DEFAULT_TYPE}, {"arange"})
    \/ NewArray({UUMPY_DEFAULT_TYPE}, Shapes)
    \/ Subscr(IndexExprs)
    \/ SubscrStore(StoreValues)

SpecIndex == Init /\ [][NextIndex]_vars

\* Broadcasting and element-wise arithmetic, on the array and on views of
\* it that are reversed, offset or given a new axis.
ViewExprs ==
    {<<SliceItem(<<>>, <<>>, <<-1>>)>>, <<SliceItem(<<1>>, <<>>, <<>>)>>,
     <<NewAxis>>}

NextArith ==
    \/ Array({UUMPY_DEFAULT_TYPE}, {"arange"})
    \/ NewArray({UUMPY_DEFAULT_TYPE}, Shapes)
    \/ Subscr(ViewExprs)
    \/ Broadcast
    \/ BinaryOp

SpecArith == Init /\ [][NextArith]_vars

\* Reshaping, of an array built from a list and of transposed views of it.
NextReshape ==
    \/ Array({UUMPY_DEFAULT_TYPE}, {"arange"})
    \/ Transpose
    \/ Reshape

SpecReshape == Init /\ [][NextReshape]_vars

\* Reductions.
NextReduce ==
    \/ Array(Typecodes, Fills)
    \/ NewArray(Typecodes, Shapes)
    \/ Subscr(IndexExprs)
    \/ Transpose
    \/ Reduction

SpecReduce == Init /\ [][NextReduce]_vars

\* Linear algebra, on lists and on float and integer arrays and their
\* transposed views.
NextLinalg ==
    \/ Array(Typecodes, {"arange"})
    \/ Transpose
    \/ RowEchelon
    \/ Det
    \/ Inv
    \/ Solve

SpecLinalg == Init /\ [][NextLinalg]_vars

\* Allocation and the making of views: the shapes of the other
\* specifications, the shapes of rank UUMPY_MAX_DIMS, and shapes whose
\* element count does not fit mp_int_t.
BigLen == 2 ^ (WordBits \div 2)
AllocShapes ==
    Shapes \cup {[i \in 1..UUMPY_MAX_DIMS |-> 1],
                 [i \in 1..UUMPY_MAX_DIMS |-> IF i = 2 THEN MaxLen ELSE 1],
                 <<BigLen, BigLen>>, <<1, BigLen, BigLen>>}

NextAlloc ==
    \/ NewArray(Typecodes, AllocShapes)
    \/ Array(Typecodes, {"arange"})
    \/ Subscr(ViewExprs)
    \/ Transpose
    \/ Reshape

SpecAlloc == Init /\ [][NextAlloc]_vars

\* The traversal engine, run with the caller's kernel over the array and
\* over reversed, offset, transposed and expanded views of it.
NextTraverse ==
    \/ Array({UUMPY_DEFAULT_TYPE}, {"arange"})
    \/ NewArray({UUMPY_DEFAULT_TYPE}, Shapes)
    \/ Subscr(ViewExprs)
    \/ Transpose
    \/ ApplyUnary
    \/ ApplyBinary

SpecTraverse == Init /\ [][NextTraverse]_vars

\* The operators and subscripts of the ndarray type.
NextOperators ==
    \/ Array(Typecodes, {"arange"})
    \/ Subscr(ViewExprs)
    \/ UnaryOp
    \/ BinaryOp
    \/ Contains
    \/ SubscrDelete(ViewExprs)

SpecOperators == Init /\ [][NextOperators]_vars

\* dot, on an array and its transposed, reversed, offset and expanded
\* views.
NextDot ==
    \/ Array({UUMPY_DEFAULT_TYPE}, {"arange"})
    \/ Transpose
    \/ Subscr(ViewExprs)
    \/ Dot

SpecDot == Init /\ [][NextDot]_vars

\* Copies between arrays that share no block: of a view into a new array,
\* and of an array made of a list, or a view of it, into a view.
ListValues ==
    {PyValue(dims, [i \in 1..Product(dims) |-> 6 + i]) : dims \in ListShapes}
WholeExprs == {<<Ellipsis>>, <<SliceItem(<<>>, <<>>, <<-1>>)>>}

NextCopy ==
    \/ Array({UUMPY_DEFAULT_TYPE}, {"arange"})
    \/ NewArray({UUMPY_DEFAULT_TYPE}, Shapes)
    \/ Subscr(ViewExprs)
    \/ Transpose
    \/ CopyArray
    \/ StoreArray(WholeExprs, ListValues, ArrayViews)

SpecCopy == Init /\ [][NextCopy]_vars

\* The row reduction on its own, on matrices of every shape and with every
\* setting of its flags.
NextRowReduce ==
    \/ ReduceArray(RowLists)

SpecRowReduce == Init /\ [][NextRowReduce]_vars

\* The reduction kernel and the view it is given, on float arrays and on
\* views of them that are reversed, offset, expanded, transposed or empty.
EmptyExprs == {<<SliceItem(<<1>>, <<1>>, <<>>)>>}

NextKernel ==
    \/ Array({UUMPY_DEFAULT_TYPE}, {"arange"})
    \/ NewArray({UUMPY_DEFAULT_TYPE}, Shapes)
    \/ Subscr(ViewExprs \cup EmptyExprs)
    \/ Transpose
    \/ Reduction

SpecKernel == Init /\ [][NextKernel]_vars

\* The operations that make arrays and views: allocation, indexing,
\* transpose, reshape and broadcast.
NextViews ==
    \/ Array({UUMPY_DEFAULT_TYPE}, {"arange"})
    \/ NewArray({UUMPY_DEFAULT_TYPE}, Shapes)
    \/ Subscr(IndexExprs)
    \/ Transpose
    \/ Reshape
    \/ Broadcast

SpecViews == Init /\ [][NextViews]_vars

\* Assignments and in-place operations whose source is the program's own
\* array, or a view of it, and so shares its block with the destination.
NextOverlap ==
    \/ Array({UUMPY_DEFAULT_TYPE}, {"arange"})
    \/ Subscr(ViewExprs)
    \/ Transpose
    \/ StoreArray(WholeExprs \cup ViewExprs, {NoValue}, ArrayViews)
    \/ BinaryOpArray(ArrayViews)

SpecOverlap == Init /\ [][NextOverlap]_vars

\* isclose on numbers and lists of mp_float_t, and on arrays of each type.
NextClose ==
    \/ Array(Typecodes, {"arange"})
    \/ IsClose

SpecClose == Init /\ [][NextClose]_vars

(***************************************************************************)
(* Properties.                                                             *)
(***************************************************************************)
Rank(o) == Len(o.dim_info)

\* The multi-indices of an array with the given axis lengths.
RECURSIVE MaxOf(_)
MaxOf(s) == IF s = <<>> THEN 0 ELSE MAX(Head(s), MaxOf(Tail(s)))

MultiIndices(lens) ==
    {idx \in [1..Len(lens) -> 0..(MaxOf(lens) - 1)] :
        \A i \in 1..Len(lens) : idx[i] < lens[i]}

\* The buffer offset of the element of o at multi-index idx.
OffsetOf(o, idx) ==
    o.base_offset + SumSeq([i \in 1..Rank(o) |-> idx[i] * o.dim_info[i].stride])

\* Right alignment: the axis of o under output axis i of n (0: none, the
\* array is padded there).
Aligned(o, i, n) == MAX(0, i - (n - Rank(o)))

\* Some aligned axis pair has unequal lengths neither of which is 1.
Incompatible(L, R) ==
    LET n == MAX(Rank(L), Rank(R))
    IN  \E i \in 1..n :
            LET l == Aligned(L, i, n)
                r == Aligned(R, i, n)
            IN  /\ l > 0 /\ r > 0
                /\ L.dim_info[l].length # R.dim_info[r].length
                /\ L.dim_info[l].length # 1
                /\ R.dim_info[r].length # 1

\* out is input o broadcast against other: same block and base offset, rank
\* n, a padded or expanded axis has the other's length and stride 0, every
\* other axis is the input's.
BroadcastOf(out, o, other) ==
    LET n == MAX(Rank(o), Rank(other))
    IN  /\ out.data = o.data
        /\ out.base_offset = o.base_offset
        /\ out.typecode = o.typecode
        /\ Rank(out) = n
        /\ \A i \in 1..n :
            LET j == Aligned(o, i, n)
                k == Aligned(other, i, n)
            IN  IF j = 0 THEN
                    out.dim_info[i] = uumpy_dim_info(other.dim_info[k].length, 0)
                ELSE IF /\ k > 0
                        /\ o.dim_info[j].length = 1
                        /\ other.dim_info[k].length # 1
                THEN out.dim_info[i] = uumpy_dim_info(other.dim_info[k].length, 0)
                ELSE out.dim_info[i] = o.dim_info[j]

NeedsExpansion(L, dims) ==
    \/ Rank(L) < Len(dims)
    \/ \E i \in 1..Len(dims) :
        LET j == Rank(L) - Len(dims) + i
        IN  j > 0 /\ L.dim_info[j].length = 1 /\ dims[i] # 1

\* C2: an in-place binary operation whose left operand would have to be
\* expanded by broadcasting raises an error before any element is written:
\* the left operand's block, dims and base offset are unchanged.
InPlaceRejectsExpansion ==
    (/\ last.op = "binary"
     /\ last.arg.in_place
     /\ NeedsExpansion(last.x, last.arg.value.dims)) =>
        /\ last.status = "error"
        /\ heap["a"] = last.pre["a"]
        /\ v = last.x

\* An in-place operation on a non-empty array rejected for that reason.
InPlaceRejectsExpansionWitness ==
    /\ last.op = "binary"
    /\ last.arg.in_place
    /\ NeedsExpansion(last.x, last.arg.value.dims)
    /\ last.err = "non-broadcastable output operand"
    /\ Len(last.pre["a"]) > 1

(***************************************************************************)
(* Indexing, as the documentation describes it.                            *)
(***************************************************************************)
Consumers(expr) == {k \in 1..Len(expr) : expr[k].kind \in {"int", "slice"}}
NewAxes(expr) == {k \in 1..Len(expr) : expr[k].kind = "none"}

FullSlice == SliceItem(<<>>, <<>>, <<>>)

\* expr with its ellipsis (if it has one) replaced by full slices for the
\* source axes its integer and slice items do not consume.
FillEllipsis(expr, rank) ==
    IF EllipsisOffsets(expr) = {} THEN expr
    ELSE LET e == CHOOSE k \in EllipsisOffsets(expr) : TRUE
             n == rank - Cardinality(Consumers(expr))
         IN  SubSeq(expr, 1, e - 1) \o [i \in 1..n |-> FullSlice]
             \o SubSeq(expr, e + 1, Len(expr))

\* The view an index expression of integers, slices and newaxis items
\* denotes: item by item, a newaxis adds an axis of length 1 (fresh: its
\* stride is immaterial) and steps over no source axis.
RECURSIVE ViewOf(_, _, _, _)
ViewOf(o, expr, k, st) ==
    IF st.err # "" THEN st
    ELSE IF k > Len(expr) THEN
        [st EXCEPT !.dims = @ \o [i \in 1..(Rank(o) - st.axis) |->
            [length |-> o.dim_info[st.axis + i].length,
             stride |-> o.dim_info[st.axis + i].stride, fresh |-> FALSE]]]
    ELSE IF expr[k].kind = "none" THEN
        ViewOf(o, expr, k + 1,
               [st EXCEPT !.dims = Append(@, [length |-> 1, stride |-> 0,
                                              fresh |-> TRUE])])
    ELSE
        LET src_dim == o.dim_info[st.axis + 1]
        IN  IF expr[k].kind = "int" THEN
                LET index == IF expr[k].val < 0 THEN expr[k].val + src_dim.length
                             ELSE expr[k].val
                IN  IF index < 0 \/ index >= src_dim.length
                    THEN [st EXCEPT !.err = "index out of range"]
                    ELSE ViewOf(o, expr, k + 1,
                                [st EXCEPT !.base = @ + index * src_dim.stride,
                                           !.axis = @ + 1])
            ELSE
                LET r == mp_obj_slice_indices(expr[k], src_dim.length)
                IN  ViewOf(o, expr, k + 1,
                           [st EXCEPT
                               !.base = @ + src_dim.stride * r.start,
                               !.dims = Append(@, [length |-> slice_count(r),
                                                   stride |-> src_dim.stride * r.step,
                                                   fresh |-> FALSE]),
                               !.axis = @ + 1])

Denoted(o, expr) ==
    ViewOf(o, FillEllipsis(expr, Rank(o)), 1,
           [axis |-> 0, dims |-> <<>>, base |-> o.base_offset, err |-> ""])

\* The last operation, a load, returned what its expression denotes.
LoadedDenoted ==
    LET d == Denoted(last.x, last.arg.expr)
    IN  IF d.err # "" THEN last.status = "error" /\ last.err = d.err
        ELSE /\ last.status = "ok"
             /\ IF d.dims = <<>>
                THEN last.val = <<heap[last.x.data][d.base + 1]>>
                ELSE /\ last.out.data = last.x.data
                     /\ last.out.base_offset = d.base
                     /\ Rank(last.out) = Len(d.dims)
                     /\ \A i \in 1..Len(d.dims) :
                         /\ last.out.dim_info[i].length = d.dims[i].length
                         /\ d.dims[i].fresh
                            \/ last.out.dim_info[i].stride = d.dims[i].stride

\* The value element assigned at multi-index idx of a target with axis
\* lengths lens, the value's axes right-aligned with the target's.
AssignedAt(value, lens, idx) ==
    LET n == Len(value.dims)
        at == [i \in 1..n |-> IF value.dims[i] = 1 THEN 0
                              ELSE idx[Len(lens) - n + i]]
    IN  value.elems[1 + SumSeq([i \in 1..n |->
                at[i] * Product(SubSeq(value.dims, i + 1, n))])]

Assignable(value, lens) ==
    /\ Len(value.dims) <= Len(lens)
    /\ \A i \in 1..Len(value.dims) :
        value.dims[i] \in {1, lens[Len(lens) - Len(value.dims) + i]}

\* C3: a view V obtained by indexing an array A shares A's block: after an
\* element or slice assignment through V, A holds the assigned value at
\* every position the assignment addresses, and every other element of A
\* keeps its previous value.
StoreThroughView ==
    LET t == subscr_target(last.x, last.arg.expr)
        target == ndarray_new_view(last.x, t.target_base_offset, t.target_dim_info)
        lens == Shape(target)
    IN  (/\ last.op = "store"
         /\ last.x # a
         /\ t.err = ""
         /\ Assignable(last.arg.value, lens)) =>
            /\ last.status = "ok"
            /\ Len(heap["a"]) = Len(last.pre["a"])
            /\ \A p \in 1..Len(last.pre["a"]) :
                LET hits == {idx \in MultiIndices(lens) : OffsetOf(target, idx) = p - 1}
                IN  IF hits = {} THEN heap["a"][p] = last.pre["a"][p]
                    ELSE \E idx \in hits :
                            heap["a"][p] = AssignedAt(last.arg.value, lens, idx)

\* The number of indices start, start+step, ... strictly before stop in the
\* step's direction.
SliceIndexCount(r, length) ==
    Cardinality({k \in 0..Abs(length) :
                    IF r.step > 0 THEN r.start + k * r.step < r.stop
                    ELSE r.start + k * r.step > r.stop})

\* C4: a slice resolved to (start, stop, step) on a source axis of stride s
\* gives an axis whose length is the number of indices start, start+step,
\* ... strictly before stop (0 when there is none, never negative) and whose
\* stride is s*step, and it adds s*start to the view's base offset.
SliceAxis ==
    LET expr == last.arg.expr
        x == last.x
        resolved == [k \in 1..Len(expr) |->
                        mp_obj_slice_indices(expr[k], x.dim_info[k].length)]
    IN  (/\ last.op = "load"
         /\ last.status = "ok"
         /\ Len(expr) <= Rank(x)
         /\ \A k \in 1..Len(expr) : expr[k].kind \in {"int", "slice"}
         /\ \E k \in 1..Len(expr) : expr[k].kind = "slice") =>
            /\ \A k \in 1..Len(expr) :
                expr[k].kind = "slice" =>
                    LET j == Cardinality({i \in 1..k : expr[i].kind = "slice"})
                    IN  /\ last.out.dim_info[j].length
                            = SliceIndexCount(resolved[k], x.dim_info[k].length)
                        /\ last.out.dim_info[j].length >= 0
                        /\ last.out.dim_info[j].stride
                            = x.dim_info[k].stride * resolved[k].step
            /\ last.out.base_offset = x.base_offset +
                SumSeq([k \in 1..Len(expr) |->
                    x.dim_info[k].stride *
                        (IF expr[k].kind = "slice" THEN resolved[k].start
                         ELSE IF expr[k].val < 0
                              THEN expr[k].val + x.dim_info[k].length
                              ELSE expr[k].val)])

\* C5: a newaxis item inserts an axis of length 1 at its position and
\* consumes no source axis: an index expression whose integer and slice
\* items number at most the array's rank is accepted wherever its newaxis
\* items stand, while the result rank is at most UUMPY_MAX_DIMS.
NewAxisAnywhere ==
    LET expr == last.arg.expr
    IN  (/\ last.op = "load"
         /\ NewAxes(expr) # {}
         /\ EllipsisOffsets(expr) = {}
         /\ Cardinality(Consumers(expr)) <= Rank(last.x)
         /\ Rank(last.x) + Cardinality(NewAxes(expr)) <= UUMPY_MAX_DIMS) =>
            LoadedDenoted

\* C6: an ellipsis stands for exactly the source axes the expression's
\* integer and slice items do not consume, so the items after it apply to
\* the trailing source axes (newaxis items consuming none); an expression
\* with two ellipses raises IndexError.
EllipsisFillsUnconsumed ==
    LET expr == last.arg.expr
    IN  last.op = "load" =>
            /\ (/\ Cardinality(EllipsisOffsets(expr)) = 1
                /\ Cardinality(Consumers(expr)) <= Rank(last.x)
                /\ Rank(last.x) + Cardinality(NewAxes(expr)) <= UUMPY_MAX_DIMS) =>
                    LoadedDenoted
            /\ Cardinality(EllipsisOffsets(expr)) > 1 =>
                    /\ last.status = "error"
                    /\ last.err = "no more than one ellipsis allowed"

(***************************************************************************)
(* Reshape and reductions.                                                 *)
(***************************************************************************)
\* The row-major flat position of multi-index idx in an array of the given
\* shape.
FlatPosition(shape, idx) ==
    SumSeq([i \in 1..Len(shape) |->
        idx[i] * Product(SubSeq(shape, i + 1, Len(shape)))])

PositiveLengths(o) == \A i \in 1..Rank(o) : o.dim_info[i].length >= 1

\* The element of o at multi-index idx.
ElementAt(mem, o, idx) == mem[o.data][OffsetOf(o, idx) + 1]

\* idx with the value j inserted as entry k.
InsertAt(idx, k, j) ==
    [i \in 1..(Len(idx) + 1) |->
        IF i < k THEN idx[i] ELSE IF i = k THEN j ELSE idx[i - 1]]

\* C8: for a float array A of rank r and a single axis k, -r <= k < r,
\* sum(A, axis=k) has A's shape with axis (k mod r) removed and holds at
\* each kept position the sum of A along that axis; a negative k selects
\* the axis k + r.
SumAlongAxis ==
    LET x == last.x
        r == Rank(x)
        k == last.arg.axis.vals[1]
        ax == (IF k < 0 THEN k + r ELSE k) + 1
        kept == [i \in 1..(r - 1) |->
                    x.dim_info[IF i < ax THEN i ELSE i + 1].length]
        along(idx) == SumSeq([j \in 1..x.dim_info[ax].length |->
                        ElementAt(last.pre, x, InsertAt(idx, ax, j - 1))])
    IN  (/\ last.op = "sum"
         /\ x.typecode = UUMPY_DEFAULT_TYPE
         /\ PositiveLengths(x)
         /\ last.arg.axis.kind = "int"
         /\ -r <= k /\ k < r) =>
            /\ last.status = "ok"
            /\ IF r = 1 THEN last.val = <<along(<<>>)>>
               ELSE /\ Shape(last.out) = kept
                    /\ \A idx \in MultiIndices(kept) :
                        ElementAt(heap, last.out, idx) = along(idx)

\* The elements of o, one for each multi-index.
Elements(mem, o) == {ElementAt(mem, o, idx) : idx \in MultiIndices(Shape(o))}

\* C9: all(A) returns true iff every element of A is truthy and false
\* otherwise, for arrays of any shape and element type.
AllTruthy ==
    (/\ last.op = "all"
     /\ PositiveLengths(last.x)
     /\ last.arg.axis.kind = "none") =>
        /\ last.status = "ok"
        /\ last.val = <<IF 0 \in Elements(last.pre, last.x) THEN 0 ELSE 1>>

\* C10: sum(A, axis=None) of an all-zero array returns 0 and prod(A,
\* axis=None) of an all-ones array returns 1, for every shape and every
\* supported element type, the integer types as well as the default float.
ReductionIdentities ==
    (/\ last.op \in {"sum", "prod"}
     /\ PositiveLengths(last.x)
     /\ last.arg.axis.kind = "none"
     /\ Elements(last.pre, last.x) = {IF last.op = "sum" THEN 0 ELSE 1}) =>
        /\ last.status = "ok"
        /\ last.val = <<IF last.op = "sum" THEN 0 ELSE 1>>

(***************************************************************************)
(* Linear algebra, against the mathematics.                                *)
(***************************************************************************)
\* An argument of the last operation, given as the list value or, when
\* value is NoValue, as the array x: its shape and its element at idx.
ArgShape(value, x) == IF x = NoArray THEN value.dims ELSE Shape(x)

ArgAt(value, x, idx) ==
    IF x = NoArray THEN value.elems[FlatPosition(value.dims, idx) + 1]
    ELSE ElementAt(last.pre, x, idx)

IsSquareMatrix(value, x) ==
    /\ Len(ArgShape(value, x)) = 2
    /\ ArgShape(value, x)[1] = ArgShape(value, x)[2]

\* The argument as rows of integers.
MatrixOf(value, x) ==
    [i \in 1..ArgShape(value, x)[1] |->
        [j \in 1..ArgShape(value, x)[2] |-> ArgAt(value, x, <<i - 1, j - 1>>)]]

VectorOf(value, x) ==
    [i \in 1..ArgShape(value, x)[1] |-> ArgAt(value, x, <<i - 1>>)]

\* The determinant, by expansion along the first row.
RECURSIVE Determinant(_)
Determinant(m) ==
    IF Len(m) = 1 THEN m[1][1]
    ELSE SumSeq([j \in 1..Len(m) |->
            (IF j % 2 = 1 THEN 1 ELSE -1) * m[1][j]
            * Determinant([i \in 1..(Len(m) - 1) |->
                             [k \in 1..(Len(m) - 1) |->
                                 m[i + 1][IF k < j THEN k ELSE k + 1]]])])

RECURSIVE FSum(_)
FSum(s) == IF s = <<>> THEN Float(0) ELSE FAdd(Head(s), FSum(Tail(s)))

\* C11: for every square 2-D matrix A, determinant(A) returns the
\* determinant of A: 0 when A is singular, and with the right sign when the
\* pivot selection swaps rows.
DetIsDeterminant ==
    (/\ last.op = "det"
     /\ IsSquareMatrix(last.arg.value, last.x)) =>
        /\ last.status = "ok"
        /\ last.val = <<Float(Determinant(MatrixOf(last.arg.value, last.x)))>>

\* C12: for every non-singular square matrix A of size n, inverse(A) returns
\* an n x n matrix B with dot(A, B) the identity, B being the right half of
\* the diagonalized n x 2n scratch matrix.
InverseIsInverse ==
    (/\ last.op = "inv"
     /\ IsSquareMatrix(last.arg.value, last.x)
     /\ Determinant(MatrixOf(last.arg.value, last.x)) # 0) =>
        LET A == MatrixOf(last.arg.value, last.x)
            n == Len(A)
        IN  /\ last.status = "ok"
            /\ Shape(last.out) = <<n, n>>
            /\ \A i, k \in 1..n :
                /\ FSum([j \in 1..n |->
                        FMul(Float(A[i][j]),
                             ElementAt(heap, last.out, <<j - 1, k - 1>>))])
                   = Float(IF i = k THEN 1 ELSE 0)
                /\ ElementAt(heap, last.out, <<i - 1, k - 1>>)
                   = heap["temp"][(i - 1) * 2 * n + n + k]

\* Solve is given a square matrix and a vector of the same length.
SolveArgs ==
    /\ last.op = "solve"
    /\ IsSquareMatrix(last.arg.value, last.x)
    /\ ArgShape(last.arg.value2, last.y) = <<ArgShape(last.arg.value, last.x)[1]>>

\* C13: for every non-singular square matrix A and vector b of length n,
\* solve(A, b) returns the vector x with dot(A, x) = b, x being the last
\* column of the diagonalized n x (n+1) augmented matrix.
SolveSolves ==
    (/\ SolveArgs
     /\ Determinant(MatrixOf(last.arg.value, last.x)) # 0) =>
        LET A == MatrixOf(last.arg.value, last.x)
            b == VectorOf(last.arg.value2, last.y)
            n == Len(A)
        IN  /\ last.status = "ok"
            /\ Shape(last.out) = <<n>>
            /\ \A i \in 1..n :
                /\ FSum([j \in 1..n |->
                        FMul(Float(A[i][j]), ElementAt(heap, last.out, <<j - 1>>))])
                   = Float(b[i])
                /\ ElementAt(heap, last.out, <<i - 1>>)
                   = heap["temp"][(i - 1) * (n + 1) + n + 1]

\* C14: inverse(A) and solve(A, b) raise "singular matrix" exactly when the
\* square matrix A is rank-deficient, and return a result otherwise.
SingularExactly ==
    (/\ last.op \in {"inv", "solve"}
     /\ IsSquareMatrix(last.arg.value, last.x)
     /\ last.op = "solve" => SolveArgs) =>
        IF Determinant(MatrixOf(last.arg.value, last.x)) = 0
        THEN last.status = "error" /\ last.err = "singular matrix"
        ELSE last.status = "ok" /\ last.out # NoArray

\* The memory a dot started from, the blocks of the arrays made from its
\* list arguments included.
DotMem ==
    [last.pre EXCEPT !["t"] = last.arg.value.elems,
                     !["t2"] = last.arg.value2.elems]

\* dot was called on operands of rank two or more.
DotCase == last.op = "dot" /\ Rank(last.x) >= 2 /\ Rank(last.y) >= 2

\* The element of the product at idx: the sum over j of
\* lhs[i..., j] * rhs[k..., j, m].
DotElement(idx) ==
    LET p == Rank(last.x)
        q == Rank(last.y)
        i == SubSeq(idx, 1, p - 1)
        k == SubSeq(idx, p, p + q - 3)
        m == idx[p + q - 2]
    IN  SumSeq([j \in 1..(last.x.dim_info[p].length) |->
            ElementAt(DotMem, last.x, i \o <<j - 1>>)
            * ElementAt(DotMem, last.y, k \o <<j - 1, m>>)])

\* C15: dot of operands of ranks p, q >= 2 has the shape lhs.shape[:-1] +
\* rhs.shape[:-2] + rhs.shape[-1:] and at [i..., k..., m] the sum over j of
\* lhs[i..., j] * rhs[k..., j, m], whatever the operands' strides; it raises
\* when the contracted lengths differ or p + q - 2 exceeds UUMPY_MAX_DIMS.
DotContracts ==
    DotCase =>
        LET p == Rank(last.x)
            q == Rank(last.y)
        IN  IF \/ p + q - 2 > UUMPY_MAX_DIMS
               \/ last.x.dim_info[p].length # last.y.dim_info[q - 1].length
            THEN last.status = "error" /\ last.out = NoArray
            ELSE /\ last.status = "ok"
                 /\ Shape(last.out) = SubSeq(Shape(last.x), 1, p - 1)
                                      \o SubSeq(Shape(last.y), 1, q - 2)
                                      \o <<last.y.dim_info[q].length>>
                 /\ \A idx \in MultiIndices(Shape(last.out)) :
                        ElementAt(heap, last.out, idx) = DotElement(idx)

\* A product of a strided view and a rank-3 list, summed over two or more
\* terms, was returned.
DotContractsWitness ==
    /\ DotCase
    /\ last.status = "ok"
    /\ ~last.x.simple
    /\ Rank(last.y) = 3
    /\ last.x.dim_info[Rank(last.x)].length >= 2
    /\ Len(heap["r"]) >= 2

\* The last operation was one that writes into its target by contract:
\* element or slice assignment, or compound assignment.
InPlaceOp == last.op = "store" \/ (last.op = "binary" /\ last.arg.in_place)

\* The block of argument array o holds what it held before the operation
\* (an array made from a list argument is the operation's own temporary).
\* An array's dims and base_offset are a value that no operation reassigns:
\* every view is a new object.
ArgumentKept(o) == o.data = "a" => heap["a"] = last.pre["a"]

\* C16: an operation other than the in-place ones returns or raises, and
\* leaves the buffers of its argument arrays as they were.
ArgumentsKept ==
    (/\ last.op # ""
     /\ ~InPlaceOp
     /\ "a" \in {last.x.data, last.y.data}) =>
        /\ last.status \in {"ok", "error"}
        /\ ArgumentKept(last.x)
        /\ ArgumentKept(last.y)

\* C17: an element-wise unary or binary operation or an indexing operation
\* returns a result or raises; it never returns MP_OBJ_NULL.
NeverNull ==
    last.op \in {"unary", "binary", "load", "store", "delete"} =>
        last.status # "null"

\* C18: uumpy.ndarray(shape) returns a simple array of the requested shape
\* with base_offset 0 and row-major strides (the last axis has stride 1, each
\* other axis the product of the lengths after it), and an array that an
\* operation returns on its argument's block (a view) is not simple.
AllocatedRowMajor ==
    /\ last.op = "ndarray" =>
        LET dims == last.arg.ints
        IN  /\ last.status = "ok"
            /\ Shape(a) = dims
            /\ a.base_offset = 0
            /\ a.simple
            /\ \A i \in 1..Len(dims) :
                a.dim_info[i].stride = Product(SubSeq(dims, i + 1, Len(dims)))
    /\ (/\ last.op \in {"load", "transpose", "reshape"}
        /\ last.out # NoArray
        /\ last.out.data = "a") => ~last.out.simple

\* The program ran a traversal itself; Layers axes were left to the kernel,
\* which was to fail at call FailAt (0: never).
TraversalCase == last.op \in {"apply_unary", "apply_binary"}
Layers == last.arg.ints[1]
FailAt == last.arg.ints[2]

\* The lengths of the axes the traversal iterates.
IterLens == SubSeq(Shape(last.x), 1, Rank(last.x) - Layers)

\* The k-th multi-index (k from 0) of lens in row-major order.
RowMajorIndex(k, lens) ==
    [i \in 1..Len(lens) |->
        (k \div Product(SubSeq(lens, i + 1, Len(lens)))) % lens[i]]

\* The offset of view o at multi-index idx of the iterated axes.
IterOffset(o, idx) ==
    o.base_offset + SumSeq([i \in 1..Len(idx) |-> idx[i] * o.dim_info[i].stride])

\* C19: when a kernel invocation returns false, the traversal stops there:
\* the kernel is not called again, no destination element is written after
\* it, and the traversal returns false.
TraversalAborts ==
    (/\ TraversalCase
     /\ FailAt >= 1
     /\ Len(heap["log"]) >= FailAt) =>
        /\ last.status = "ok"
        /\ last.val = <<FALSE>>
        /\ Len(heap["log"]) = FailAt
        /\ \A j \in 1..Len(heap["r"]) : heap["r"][j] < FailAt

\* C20: over iterated axes of length one or more, the kernel is called once
\* for every multi-index of those axes, in row-major order, with the offsets
\* base_offset + sum of idx[l] * stride[l] of the destination and of each
\* source, and the traversal then returns.
TraversalVisits ==
    (/\ TraversalCase
     /\ \A i \in 1..Len(IterLens) : IterLens[i] >= 1) =>
        LET dest == ndarray_new_shaped_like(UUMPY_DEFAULT_TYPE, last.x, 0, "r")
            src2 == IF last.op = "apply_unary" THEN last.x ELSE last.y
            count == Product(IterLens)
        IN  /\ last.status = "ok"
            /\ Len(heap["log"]) = count
            /\ \A k \in 0..(count - 1) :
                LET idx == RowMajorIndex(k, IterLens)
                IN  heap["log"][k + 1] = <<IterOffset(dest, idx),
                                           IterOffset(last.x, idx),
                                           IterOffset(src2, idx)>>

\* A traversal over two axes of a view with a negative stride, against a
\* source of stride 0, made four or more kernel calls.
TraversalVisitsWitness ==
    /\ last.op = "apply_binary"
    /\ last.status = "ok"
    /\ Layers = 0
    /\ Rank(last.x) = 2
    /\ \E i \in 1..2 : last.x.dim_info[i].stride < 0
    /\ \A i \in 1..2 : last.y.dim_info[i].stride = 0
    /\ Len(heap["log"]) >= 4

\* The memory the last operation started from, with the list it was given
\* as an array in block "t".
StartMem == [last.pre EXCEPT !["t"] = last.arg.value.elems]

\* The destination view and the source of the last copy: of uumpy.array(v)
\* the new array and v, of v[expr] = w the target view and w.
StoreTarget ==
    LET t == subscr_target(last.x, last.arg.expr)
    IN  IF t.err # "" THEN NoArray
        ELSE ndarray_new_view(last.x, t.target_base_offset, t.target_dim_info)
CopyDest ==
    IF last.op = "copy"
    THEN ndarray_new_shaped_like(last.x.typecode, last.x, 0, "r")
    ELSE StoreTarget
CopySrc == IF last.op = "copy" THEN last.x ELSE last.y

\* A copy between views of the same element type and shape (of rank one or
\* more in a store: a store into one element makes no copy).
CopyCase ==
    /\ last.op \in {"copy", "store_array"}
    /\ CopyDest # NoArray
    /\ last.op = "store_array" => Rank(CopyDest) >= 1
    /\ CopyDest.typecode = CopySrc.typecode
    /\ Shape(CopyDest) = Shape(CopySrc)

\* The offsets the view o addresses.
Addressed(o) == {OffsetOf(o, idx) : idx \in MultiIndices(Shape(o))}

\* C21: after the copy between views of the same element type and shape
\* made with the spec ufunc_find_copy_spec chooses, dest[idx] = src[idx] for
\* every multi-index, and no element outside the positions the destination
\* view addresses is written.
CopyFaithful ==
    CopyCase =>
        /\ last.status = "ok"
        /\ \A idx \in MultiIndices(Shape(CopyDest)) :
                ElementAt(heap, CopyDest, idx) = ElementAt(StartMem, CopySrc, idx)
        /\ \A b \in {"a", "r"} :
            /\ b # CopyDest.data => heap[b] = last.pre[b]
            /\ b = CopyDest.data /\ last.op = "store_array" =>
                /\ Len(heap[b]) = Len(last.pre[b])
                /\ \A j \in 1..Len(heap[b]) :
                        (j - 1) \notin Addressed(CopyDest) =>
                            heap[b][j] = last.pre[b][j]

\* The row reduction of the last operation, run again: its x and y at the end.
Reduced ==
    reduce_loop(Floats(last.arg.value.elems), last.arg.value.dims[2],
                last.arg.value.dims[1], last.arg.ints[1] = 1, last.arg.ints[2] = 1,
                0, 0, Float(1))

\* The increasing sequences of k of the numbers 1..n.
Increasing(n, k) ==
    {q \in [1..k -> 1..n] : \A i \in 1..(k - 1) : q[i] < q[i + 1]}

\* The rank of the first cols columns of the matrix m (rows of integers):
\* the size of its largest square submatrix with a determinant other than 0.
HasMinor(m, cols, k) ==
    \/ k = 0
    \/ \E r \in Increasing(Len(m), k), c \in Increasing(cols, k) :
            Determinant([i \in 1..k |-> [j \in 1..k |-> m[r[i]][c[j]]]]) # 0
RankOfColumns(m, cols) ==
    CHOOSE k \in 0..MIN(Len(m), cols) :
        /\ HasMinor(m, cols, k)
        /\ \A k2 \in (k + 1)..MIN(Len(m), cols) : ~HasMinor(m, cols, k2)

\* The number of leading columns of m that the reduction scans: as many as
\* it takes for them to have a pivot in every row (rank Len(m)), all of them
\* if they never do.
ColumnsScanned(m) ==
    LET width == Len(m[1])
        full == {k \in 1..width : RankOfColumns(m, k) = Len(m)}
    IN  IF full = {} THEN width
        ELSE CHOOSE k \in full : \A k2 \in full : k <= k2

RegionOffsets(dim_info, offset) ==
    LET lens == [i \in 1..Len(dim_info) |-> dim_info[i].length]
    IN  [k \in 1..Product(lens) |->
            offset + SumSeq([i \in 1..Len(lens) |->
                        RowMajorIndex(k - 1, lens)[i] * dim_info[i].stride])]

\* A reduction that got as far as its traversal: the function for the
\* operation was found and the axis argument accepted.
ReductionRan ==
    /\ last.op \in ReductionOps
    /\ last.status # "error"

\* The positions of the result of the last reduction.
ResultPositions ==
    IF last.out = NoArray THEN 1 ELSE Product(Shape(last.out))

\* C23: for each position of the result the reduction kernel runs once: it
\* calls init (when the operation has one), then accumulate once for every
\* element of the reduced region in row-major order, with is_first true for
\* the first call only, then finish with count the number of elements of
\* the region; no position is given the state of another.
KernelProtocol ==
    ReductionRan =>
        /\ last.status = "ok"
        /\ Len(heap["log"]) = ResultPositions
        /\ \A p \in 1..Len(heap["log"]) :
            LET e == heap["log"][p]
                region == RegionOffsets(e.dim_info, e.src_offset)
            IN  /\ e.init = (last.op \in {"sum", "prod"})
                /\ e.iter = [i \in 1..Len(region) |-> <<region[i], i = 1>>]
                /\ e.count = Len(region)
                /\ \A q \in 1..(p - 1) : heap["log"][q].dest_offset # e.dest_offset


\* The axes of the source of the last reduction that its axis argument names,
\* negative values counted from the end, and whether they are its trailing
\* axes already.
ReducedAxes ==
    {axis_index(last.arg.axis.vals[i], Rank(last.x)) : i \in 1..Len(last.arg.axis.vals)}
TrailingAxes == (Rank(last.x) - Cardinality(ReducedAxes))..(Rank(last.x) - 1)

\* A reduction over axes that are not the trailing ones.
PermutedCase ==
    /\ ReductionRan
    /\ last.arg.axis.kind # "none"
    /\ ReducedAxes # TrailingAxes

\* The axes of o among those in the set axes, in the order o has them.
AxesInOrder(o, axes) ==
    LET picked == SelectSeq([i \in 1..Rank(o) |-> i - 1], LAMBDA x : x \in axes)
    IN  [i \in 1..Len(picked) |-> o.dim_info[picked[i] + 1]]

\* C24: a reduction over axes that are not the trailing axes of the source
\* walks a new view of the source's data whose axes are the kept axes
\* followed by the reduced axes, each group in the order of the source,
\* whatever the order and sign of the axis values; the source is untouched.
PermutedView ==
    PermutedCase =>
        /\ last.status = "ok"
        /\ last.out2 = ndarray_new_view(last.x, last.x.base_offset,
                AxesInOrder(last.x, (0..(Rank(last.x) - 1)) \ ReducedAxes)
                \o AxesInOrder(last.x, ReducedAxes))
        /\ v = last.x

\* The elements the last isclose compared at position i of its result (from
\* 0), when neither operand had to be expanded beyond repeating a number.
CloseOperand(value, x, i) ==
    IF x # NoArray
    THEN Float(last.pre[x.data][x.base_offset + 1
                                + (IF x.dim_info[1].length = 1 THEN 0 ELSE i)])
    ELSE IF Len(value.elems) = 1 THEN value.elems[1]
    ELSE value.elems[i + 1]

\* What isclose is to return for the values x and y.
CloseTo(x, y, tol) ==
    IF isnan(x) /\ isnan(y) THEN tol.equal_nan
    ELSE IF isnan(x) \/ isnan(y) THEN FALSE
    ELSE \/ x = y
         \/ FLessEq(ABS(FSub(x, y)),
                    FAdd(close_spec_of(tol).atol, FMul(close_spec_of(tol).rtol, ABS(y))))

\* An isclose of two operands of rank at most 1 and of lengths that agree or
\* are 1.
CloseCase ==
    /\ last.op = "isclose"
    /\ last.status # "error"
    /\ last.x # NoArray => Rank(last.x) = 1
    /\ last.y # NoArray => Rank(last.y) = 1

\* C25: isclose returns, element by element, a == b or
\* |a - b| <= atol + rtol * |b| when neither value is NaN, the equal_nan
\* flag when both are NaN, and false when exactly one is NaN.
CloseElementwise ==
    CloseCase =>
        /\ last.status = "ok"
        /\ \A i \in 0..(Len(heap["r"]) - 1) :
            heap["r"][i + 1] =
                IF CloseTo(CloseOperand(last.arg.value, last.x, i),
                           CloseOperand(last.arg.value2, last.y, i), last.arg.tol)
                THEN 1 ELSE 0

\* dot was called on a left operand of rank one or more and a right operand
\* of rank two or more whose contracted lengths agree, for a result of at
\* most UUMPY_MAX_DIMS axes.
DotMatching ==
    /\ last.op = "dot"
    /\ Rank(last.x) >= 1
    /\ Rank(last.y) >= 2
    /\ Rank(last.x) + Rank(last.y) - 2 <= UUMPY_MAX_DIMS
    /\ last.x.dim_info[Rank(last.x)].length = last.y.dim_info[Rank(last.y) - 1].length

\* C26: dot of a left operand of rank N >= 1 and a right operand of rank
\* M >= 2 with matching contracted lengths ends and returns the sum product
\* over the last axis of lhs and the second-to-last axis of rhs, of shape
\* lhs.shape[:-1] + rhs.shape[:-2] + rhs.shape[-1:], and reads no element
\* outside the operands.
DotAnyRank ==
    DotMatching =>
        /\ last.status = "ok"
        /\ Shape(last.out) = SubSeq(Shape(last.x), 1, Rank(last.x) - 1)
                             \o SubSeq(Shape(last.y), 1, Rank(last.y) - 2)
                             \o <<last.y.dim_info[Rank(last.y)].length>>
        /\ \A idx \in MultiIndices(Shape(last.out)) :
                ElementAt(heap, last.out, idx) = DotElement(idx)

\* The arrays and views the program holds or was just returned.
LiveArrays == {a, v, last.out, last.out2} \ {NoArray}

\* o has at most UUMPY_MAX_DIMS axes, none of negative length, and addresses
\* only offsets inside its block.
WellFormed(o) ==
    /\ Rank(o) <= UUMPY_MAX_DIMS
    /\ \A i \in 1..Rank(o) : o.dim_info[i].length >= 0
    /\ \A off \in Addressed(o) : off >= 0 /\ off < Len(heap[o.data])

\* C27: after any sequence of allocations, indexing with integers, slices
\* and newaxis, transposes, reshapes and broadcasts, every array or view has
\* rank at most 8, axis lengths >= 0, and addresses only offsets in
\* [0, element count of its block).
ViewsWellFormed ==
    last.status \in {"", "ok", "error"} => \A o \in LiveArrays : WellFormed(o)

\* inverse or solve was given a square matrix (and solve a vector of its
\* length), so that it copies its arguments into the scratch matrix.
LinalgCopyCase ==
    \/ last.op = "inv" /\ IsSquareMatrix(last.arg.value, last.x)
    \/ SolveArgs

\* C28: during inverse(A) and solve(A, b) every copy between the argument
\* copies and the scratch matrix reads only inside its source block and
\* writes only inside its destination block, for every n >= 1: the routine
\* returns or raises, and no traversal leaves a block.
LinalgCopiesInside ==
    LinalgCopyCase => last.status \notin UndefinedOutcomes

\* A traversal over a destination one of whose iterated axes has length 0
\* (and none a negative length).
EmptyTraversal ==
    /\ TraversalCase
    /\ \A i \in 1..Len(IterLens) : IterLens[i] >= 0
    /\ \E i \in 1..Len(IterLens) : IterLens[i] = 0

\* C29: when an iterated destination axis has length 0, ufunc_apply_unary
\* and ufunc_apply_binary return without calling the kernel: no element is
\* read or written.
EmptyTraversalSkips ==
    EmptyTraversal =>
        /\ last.status = "ok"
        /\ heap["log"] = <<>>
        /\ heap["a"] = last.pre["a"]

\* The destination of the last assignment or in-place operation.
OverlapDest == IF last.op = "store_array" THEN StoreTarget ELSE last.x

\* An assignment v[expr] = w or an in-place operation v op= w whose source w
\* is a view, of the shape of the destination, that shares elements with it.
OverlapCase ==
    /\ \/ last.op = "store_array"
       \/ last.op = "binary_array" /\ last.arg.in_place
    /\ OverlapDest # NoArray
    /\ Rank(OverlapDest) >= 1
    /\ PositiveLengths(OverlapDest)
    /\ last.y.data = OverlapDest.data
    /\ Shape(last.y) = Shape(OverlapDest)
    /\ Addressed(last.y) \cap Addressed(OverlapDest) # {}

\* C30: when the source of a slice assignment or the right operand of an
\* in-place operation overlaps the destination in the same block, every
\* destination element is computed from the values the operands held
\* before the operation: no element is read after it was overwritten.
OverlapReadsOld ==
    OverlapCase =>
        /\ last.status = "ok"
        /\ \A idx \in MultiIndices(Shape(OverlapDest)) :
                ElementAt(heap, OverlapDest, idx) =
                    IF last.op = "store_array"
                    THEN ElementAt(last.pre, last.y, idx)
                    ELSE mp_binary_op(last.arg.b_op,
                                      ElementAt(last.pre, OverlapDest, idx),
                                      ElementAt(last.pre, last.y, idx))

====
